---- MODULE Spec2Model ----
(***************************************************************************)
(* A model of app/utils/image_parser.py: the token classifiers, the        *)
(* ShiftInfo validators and parse_shift_text_to_structured_data (date      *)
(* extraction, the per-line state machine and the leftover flush); and of  *)
(* the loop of process_image_and_calendar_registration                     *)
(* (app/api/endpoints/line_webhook.py) over the parsed records.            *)
(*                                                                         *)
(* A line of text is a sequence of characters.  A character is a one-      *)
(* element string; the characters outside ASCII are written by name:       *)
(*   "gatsu" U+6708 (month)      "nichi" U+65E5 (day)                      *)
(*   "kyuu"  U+4F11, "mi" U+307F            : kyuu mi   = holiday marker   *)
(*   "gyou"  U+696D                         : kyuu gyou = holiday marker   *)
(*   "shi"   U+6C0F, "mei" U+540D           : shi mei   = header keyword   *)
(*   "ku" U+533A, "betsu" U+5225            : ku betsu  = header keyword   *)
(*   "tan" U+62C5, "tou" U+5F53             : tan tou   = header keyword   *)
(*   "kai" U+958B, "hajime" U+59CB          : kai hajime = header keyword  *)
(*   "shuu" U+7D42, "ryou" U+4E86           : shuu ryou = header keyword   *)
(*   "SHI" U+30B7, "FU" U+30D5, "TO" U+30C8, "hyou" U+8868                 *)
(*                                          : SHI FU TO hyou = table title *)
(*   "HO" U+30DB, "CHOON" U+30FC, "RU" U+30EB : HO CHOON RU = role keyword *)
(*   "FU" "RO" U+30ED "N" U+30F3 "TO"       : FU RO N TO   = role keyword  *)
(*   "wata" U+6E21, "nabe" U+908A, "ta" U+7530, "naka" U+4E2D : name kanji *)
(*   "isp" U+3000 ideographic space                                        *)
(***************************************************************************)
EXTENDS Integers, Sequences, FiniteSets, TLC

\* text: the argument, as its lines (text.split('\n'))
\* current_year: datetime.now().year
\* lines, table_date, line_idx, current_record, expecting_next,
\* parsed_shifts: the locals of parse_shift_text_to_structured_data
\* pc: "start" (called), "loop" (in the line loop), "done" (returned),
\*     "raised" (an exception left the function)
VARIABLES text, current_year, lines, table_date, line_idx, current_record,
          expecting_next, parsed_shifts, pc

\* second_call: the argument, the year and the locals of a second call of
\* parse_shift_text_to_structured_data that runs at the same time, as a
\* record with the fields named as above
VARIABLE second_call

\* the locals of process_image_and_calendar_registration, the caller:
\* parse_results_for_reply, processed_shifts_count: as in the code
\* shift_idx: how many entries of parsed_shift_data_list the loop has taken
\* submitted: the argument lists of the calls of create_calendar_event
\* caller_pc: "parse" (the parser has not returned to it), "shifts" (in the
\*     loop over the records), "pushed" (final push sent), "error" (the
\*     except branch sent the error message)
VARIABLES parse_results_for_reply, processed_shifts_count, shift_idx,
          submitted, caller_pc

\* the locals of the call
call_vars == <<text, current_year, lines, table_date, line_idx, current_record,
               expecting_next, parsed_shifts, pc>>

\* the locals of the caller
caller_vars == <<parse_results_for_reply, processed_shifts_count, shift_idx,
                 submitted, caller_pc>>

vars == <<call_vars, second_call, caller_vars>>

\* Python's None, and the absent value of an Optional field.
None == <<>>

(***************************************************************************)
(* Character classes                                                       *)
(***************************************************************************)
\* \d
Digits == {"0", "1", "2", "3", "4", "5", "6", "7", "8", "9"}

\* int() of one digit
DigitVal(c) ==
    CASE c = "0" -> 0 [] c = "1" -> 1 [] c = "2" -> 2 [] c = "3" -> 3
      [] c = "4" -> 4 [] c = "5" -> 5 [] c = "6" -> 6 [] c = "7" -> 7
      [] c = "8" -> 8 [] c = "9" -> 9

\* \s, and what str.strip() removes
Whitespace == {" ", "tab", "isp"}

\* [\u3000-\u303F\u3040-\u309F\u30A0-\u30FF\uFF00-\uFFEF\u4E00-\u9FAF], over the characters used here
WideChars ==
    {"isp", "mi", "SHI", "FU", "TO", "HO", "CHOON", "RU", "RO", "N",
     "gatsu", "nichi", "kyuu", "gyou", "shi", "mei", "ku", "betsu", "tan",
     "tou", "kai", "hajime", "shuu", "ryou", "hyou", "wata", "nabe", "ta",
     "naka"}

(***************************************************************************)
(* String helpers                                                          *)
(***************************************************************************)
\* kw in text
Contains(txt, kw) ==
    \E i \in 1..(Len(txt) - Len(kw) + 1) : SubSeq(txt, i, i + Len(kw) - 1) = kw

\* the index of the first character at or after i that \s* does not take
SkipWs(txt, i) ==
    IF \E j \in i..Len(txt) : txt[j] \notin Whitespace
    THEN CHOOSE j \in i..Len(txt) :
            /\ txt[j] \notin Whitespace
            /\ \A k \in i..(j - 1) : txt[k] \in Whitespace
    ELSE Len(txt) + 1

\* the index of the last character that is no whitespace
LastNonWs(txt) ==
    CHOOSE j \in 1..Len(txt) :
        /\ txt[j] \notin Whitespace
        /\ \A k \in (j + 1)..Len(txt) : txt[k] \in Whitespace

\* str.strip()
Strip(txt) ==
    IF \A j \in 1..Len(txt) : txt[j] \in Whitespace
    THEN <<>>
    ELSE SubSeq(txt, SkipWs(txt, 1), LastNonWs(txt))

\* str.replace(" ", "")
RECURSIVE RemoveSpaces(_)
RemoveSpaces(txt) ==
    IF txt = <<>> THEN <<>>
    ELSE IF Head(txt) = " " THEN RemoveSpaces(Tail(txt))
         ELSE <<Head(txt)>> \o RemoveSpaces(Tail(txt))

\* int() of a run of one or two digits
IntOf(ds) ==
    IF Len(ds) = 1 THEN DigitVal(ds[1]) ELSE 10 * DigitVal(ds[1]) + DigitVal(ds[2])

AllDigits(txt, i, j) == \A k \in i..j : k <= Len(txt) /\ txt[k] \in Digits

(***************************************************************************)
(* Token classifiers                                                       *)
(***************************************************************************)
is_likely_name(txt) ==
    /\ Len(txt) >= 2
    /\ ~ \E k \in 1..Len(txt) : txt[k] \in Digits
    /\ ~ Contains(txt, <<":">>)
    /\ ~ Contains(txt, <<"gatsu">>)
    /\ ~ Contains(txt, <<"nichi">>)
    /\ \A k \in 1..Len(txt) : txt[k] \in WideChars

RoleKeywords == {<<"HO", "CHOON", "RU">>, <<"FU", "RO", "N", "TO">>}

is_role(txt) == \E kw \in RoleKeywords : Contains(txt, kw)

\* re.fullmatch(r"\d{1,2}\s*:\s*\d{2}", text.strip())
\* a tail \d{1,2}: one minute digit is enough
TimeTail_OneOrTwoDigits(t, j) ==
    j <= Len(t) /\ Len(t) <= j + 1 /\ AllDigits(t, j, Len(t))

\* \s*\d{2} matches t from position i to the end
TimeTail(t, j) == Len(t) = j + 1 /\ AllDigits(t, j, j + 1)

\* \s*:\s*\d{2} matches t from position i to the end
TimeColon(t, i) == i <= Len(t) /\ t[i] = ":" /\ TimeTail(t, SkipWs(t, i + 1))

\* \d{1,2}\s*:\s*\d{2} matches all of t
TimeFullMatch(t) ==
    \E a \in {1, 2} : AllDigits(t, 1, a) /\ TimeColon(t, SkipWs(t, a + 1))

is_time_str(txt) == TimeFullMatch(Strip(txt))

TitleKeyword == <<"SHI", "FU", "TO", "hyou">>

HeaderKeywords ==
    {<<"ku", "betsu">>, <<"shi", "mei">>, <<"tan", "tou">>,
     <<"kai", "hajime">>, <<"shuu", "ryou">>}

\* the test of the header/title skip
IsHeaderLine(line_content) ==
    \/ Contains(line_content, TitleKeyword)
    \/ \E kw \in HeaderKeywords : Contains(line_content, kw)

\* re.fullmatch(r"\d{1,2}", line_content)
IsRowNumber(line_content) ==
    Len(line_content) \in {1, 2} /\ AllDigits(line_content, 1, Len(line_content))

HolidayKeywords == {<<"kyuu", "mi">>, <<"kyuu", "gyou">>}

is_line_holiday(line_content) ==
    \E kw \in HolidayKeywords : Contains(line_content, kw)

(***************************************************************************)
(* Date extraction                                                         *)
(***************************************************************************)
\* (\d{1,2})\s*gatsu\s*(\d{1,2})\s*nichi matched at position i with an
\* a-digit month and a b-digit day
\* the character c stands at position p of txt
CharAt(txt, p, c) == p <= Len(txt) /\ txt[p] = c

\* (\d{1,2})\s*nichi: a b-digit day at position q, then the day character
DayMatchAt(txt, q, b) ==
    AllDigits(txt, q, q + b - 1) /\ CharAt(txt, SkipWs(txt, q + b), "nichi")

\* where the day's digits start when the month's end before position p
DayStart(txt, p) == SkipWs(txt, SkipWs(txt, p) + 1)

\* (\d{1,2})\s*gatsu\s*(\d{1,2})\s*nichi matched at position i with an
\* a-digit month and a b-digit day
DateMatchAt(txt, i, a, b) ==
    /\ AllDigits(txt, i, i + a - 1)
    /\ CharAt(txt, SkipWs(txt, i + a), "gatsu")
    /\ DayMatchAt(txt, DayStart(txt, i + a), b)

\* the matches of the date pattern in txt: <<position, a, b>>
DateHits(txt) ==
    {h \in (1..Len(txt)) \X {1, 2} \X {1, 2} : DateMatchAt(txt, h[1], h[2], h[3])}

\* the groups (month, day) of the match h
DateGroups(txt, h) ==
    <<IntOf(SubSeq(txt, h[1], h[1] + h[2] - 1)),
      IntOf(SubSeq(txt, DayStart(txt, h[1] + h[2]),
                   DayStart(txt, h[1] + h[2]) + h[3] - 1))>>

\* the leftmost of the matches
Leftmost(Hits) == CHOOSE x \in Hits : \A y \in Hits : x[1] <= y[1]

\* re.search of the date-header pattern: the groups (month, day) of the
\* leftmost match, or None
date_header_match(txt) ==
    IF DateHits(txt) = {} THEN None
    ELSE DateGroups(txt, Leftmost(DateHits(txt)))

IsLeap(year) == (year % 4 = 0 /\ year % 100 # 0) \/ year % 400 = 0

DaysInMonth(year, month) ==
    IF month = 2 THEN (IF IsLeap(year) THEN 29 ELSE 28)
    ELSE IF month \in {4, 6, 9, 11} THEN 30 ELSE 31

\* datetime.date(year, month, day) does not raise ValueError
DateOk(year, month, day) ==
    /\ month \in 1..12
    /\ day >= 1
    /\ day <= DaysInMonth(year, month)

\* what one line gives the date loop: a date, or None (no match, or the
\* ValueError of an invalid date swallowed)
DateOfMatch(m, year) ==
    IF m # None /\ DateOk(year, m[1], m[2]) THEN <<year, m[1], m[2]>> ELSE None

LineDate(line_content, year) == DateOfMatch(date_header_match(line_content), year)

\* the date loop: the date of the first line that gives one (break)
\* the date loop without its break: the last line that gives a date wins
RECURSIVE ExtractTableDate_NoBreak(_, _)
ExtractTableDate_NoBreak(ls, year) ==
    IF ls = <<>> THEN None
    ELSE IF ExtractTableDate_NoBreak(Tail(ls), year) # None
         THEN ExtractTableDate_NoBreak(Tail(ls), year)
         ELSE LineDate(Head(ls), year)

\* the date loop with a break at the first line that matches the pattern,
\* a calendar date or not
RECURSIVE ExtractTableDate_FirstMatchOnly(_, _)
ExtractTableDate_FirstMatchOnly(ls, year) ==
    IF ls = <<>> THEN None
    ELSE IF date_header_match(Head(ls)) # None THEN LineDate(Head(ls), year)
         ELSE ExtractTableDate_FirstMatchOnly(Tail(ls), year)

RECURSIVE ExtractTableDate(_, _)
\* the rest of the date loop after a line that gave d
DateLoopStep(d, rest, year) ==
    IF d # None THEN d ELSE ExtractTableDate(rest, year)

ExtractTableDate(ls, year) ==
    IF ls = <<>> THEN None
    ELSE DateLoopStep(LineDate(Head(ls), year), Tail(ls), year)

(***************************************************************************)
(* ShiftInfo and its validators                                            *)
(***************************************************************************)
\* a dict: a function on the set of its keys
EmptyDict == [k \in {} |-> None]

Put(d, key, value) ==
    [k \in DOMAIN d \cup {key} |-> IF k = key THEN value ELSE d[k]]

\* d.get(key)
Get(d, key) == IF key \in DOMAIN d THEN d[key] ELSE None

\* bool(d.get(key)) for the values a record holds (non-empty strings, True)
Truthy(d, key) ==
    /\ key \in DOMAIN d
    /\ IF key = "is_holiday" THEN d[key] = TRUE ELSE d[key] # None

\* ShiftInfo.parse_time_str on a str or None: raises tells a ValueError,
\* value is the time <<hour, minute>> or None
\* datetime.time(hour, minute), or its ValueError
TimeOf(hour, minute) ==
    IF hour \in 0..23 /\ minute \in 0..59
    THEN [raises |-> FALSE, value |-> <<hour, minute>>]
    ELSE [raises |-> TRUE, value |-> None]

\* the body of "if match_hm" without the step from 24:00 to 0:00
TimeOfMatch_NoRollover(hour, minute) == TimeOf(hour, minute)

\* the body of "if match_hm": 24:00 becomes 0:00
TimeOfMatch(hour, minute) ==
    IF hour = 24 /\ minute = 0 THEN TimeOf(0, minute) ELSE TimeOf(hour, minute)

\* parse_time_str on the stripped string v
ParseStripped(v) ==
    IF v = <<>> \/ v = <<"kyuu", "mi">>
    THEN [raises |-> FALSE, value |-> None]
    ELSE IF \E a \in {1, 2} :
               /\ Len(v) = a + 3
               /\ AllDigits(v, 1, a)
               /\ v[a + 1] = ":"
               /\ AllDigits(v, a + 2, a + 3)
         THEN TimeOfMatch(IntOf(SubSeq(v, 1, Len(v) - 3)),
                          IntOf(SubSeq(v, Len(v) - 1, Len(v))))
         ELSE [raises |-> TRUE, value |-> None]

parse_time_str(value) ==
    IF value = None THEN [raises |-> FALSE, value |-> None]
    ELSE ParseStripped(Strip(value))

\* ShiftInfo(date=d, **record) raises (a ValueError of a validator)
ShiftInfoRaises(d, record) ==
    \/ parse_time_str(Get(record, "start_time")).raises
    \/ parse_time_str(Get(record, "end_time")).raises

\* ShiftInfo(date=d, **record), when it does not raise
ShiftInfo(d, record) ==
    [date |-> d,
     start_time |-> parse_time_str(Get(record, "start_time")).value,
     end_time |-> parse_time_str(Get(record, "end_time")).value,
     name |-> Get(record, "name"),
     role |-> Get(record, "role"),
     memo |-> None,
     is_holiday |-> Truthy(record, "is_holiday")]

(***************************************************************************)
(* The line loop.  A loop state is [cr, en, ps, exc]: current_record,      *)
(* expecting_next, parsed_shifts, and whether an exception escaped.        *)
(***************************************************************************)
\* what a failing validator raises (pydantic's ValidationError is a ValueError)
ValidationError == "ValueError"

\* an except clause for another exception class
ExceptCatches_OnlyTypeError(e) == e = "TypeError"

\* "except ValueError as e" catches e
ExceptCatches(e) == e = "ValueError"

\* an append that leaves out a record equal to the last one
TryAppend_Dedup(st, d) ==
    IF ShiftInfoRaises(d, st.cr) THEN st
    ELSE IF st.ps # <<>> /\ st.ps[Len(st.ps)] = ShiftInfo(d, st.cr) THEN st
    ELSE [st EXCEPT !.ps = Append(@, ShiftInfo(d, st.cr))]

\* try: parsed_shifts.append(ShiftInfo(date=table_date, **current_record))
\* except ValueError: print
TryAppend(st, d) ==
    IF ~ ShiftInfoRaises(d, st.cr)
    THEN [st EXCEPT !.ps = Append(@, ShiftInfo(d, st.cr))]
    ELSE IF ExceptCatches(ValidationError) THEN st ELSE [st EXCEPT !.exc = TRUE]

\* current_record = {}; expecting_next = 'name'
\* a reset of the cursor that leaves the record in progress
Reset_CursorOnly(st) == [st EXCEPT !.en = "name"]

Reset(st) == [st EXCEPT !.cr = EmptyDict, !.en = "name"]

\* the header/title branch with the reset outside the "if"
HeaderBranch_AlwaysReset(st, d) ==
    IF st.cr # EmptyDict /\ "start_time" \in DOMAIN st.cr
    THEN Reset(TryAppend(st, d))
    ELSE Reset(st)

\* a header branch that resets only after a successful append
HeaderBranch_ResetOnSuccess(st, d) ==
    IF st.cr # EmptyDict /\ "start_time" \in DOMAIN st.cr
    THEN IF ShiftInfoRaises(d, st.cr) THEN TryAppend(st, d)
         ELSE Reset(TryAppend(st, d))
    ELSE st

\* a header branch that sets the cursor back when no start time is stored
HeaderBranch_CursorToName(st, d) ==
    IF st.cr # EmptyDict /\ "start_time" \in DOMAIN st.cr
    THEN Reset(TryAppend(st, d))
    ELSE [st EXCEPT !.en = "name"]

\* the header/title branch, up to its continue
HeaderBranch(st, d) ==
    IF st.cr # EmptyDict /\ "start_time" \in DOMAIN st.cr
    THEN Reset(TryAppend(st, d))
    ELSE st

\* the name branch with the role test ahead of the name test
ExpectName_RoleFirst(st, line_content) ==
    IF is_role(line_content)
    THEN [st EXCEPT !.cr = Put(@, "role", line_content), !.en = "start_time"]
    ELSE IF is_likely_name(line_content)
    THEN [st EXCEPT
            !.cr = IF is_line_holiday(line_content)
                   THEN Put(Put(@, "name", line_content), "is_holiday", TRUE)
                   ELSE Put(@, "name", line_content),
            !.en = "role"]
    ELSE IF is_time_str(line_content)
    THEN [st EXCEPT !.cr = Put(@, "start_time", RemoveSpaces(line_content)),
                    !.en = "end_time"]
    ELSE st

ExpectName(st, line_content) ==
    IF is_likely_name(line_content)
    THEN [st EXCEPT
            !.cr = IF is_line_holiday(line_content)
                   THEN Put(Put(@, "name", line_content), "is_holiday", TRUE)
                   ELSE Put(@, "name", line_content),
            !.en = "role"]
    ELSE IF is_role(line_content)
    THEN [st EXCEPT !.cr = Put(@, "role", line_content), !.en = "start_time"]
    ELSE IF is_time_str(line_content)
    THEN [st EXCEPT !.cr = Put(@, "start_time", RemoveSpaces(line_content)),
                    !.en = "end_time"]
    ELSE st

\* the role branch that saves the name in progress when a new name comes
ExpectRole_EmitsOnNewName(st, line_content) ==
    IF is_role(line_content)
    THEN [st EXCEPT !.cr = Put(@, "role", line_content), !.en = "start_time"]
    ELSE IF is_time_str(line_content)
    THEN [st EXCEPT !.cr = Put(@, "start_time", RemoveSpaces(line_content)),
                    !.en = "end_time"]
    ELSE IF is_likely_name(line_content)
    THEN IF st.cr # EmptyDict /\ "name" \in DOMAIN st.cr
         THEN [st EXCEPT !.cr = Put(EmptyDict, "name", line_content),
                         !.en = "role",
                         !.ps = Append(@, ShiftInfo(table_date, st.cr))]
         ELSE [st EXCEPT !.cr = Put(@, "name", line_content), !.en = "role"]
    ELSE [st EXCEPT !.en = "start_time"]

\* the role branch whose last else leaves the cursor where it is
ExpectRole_ElseSkips(st, line_content) ==
    IF is_role(line_content)
    THEN [st EXCEPT !.cr = Put(@, "role", line_content), !.en = "start_time"]
    ELSE IF is_time_str(line_content)
    THEN [st EXCEPT !.cr = Put(@, "start_time", RemoveSpaces(line_content)),
                    !.en = "end_time"]
    ELSE IF is_likely_name(line_content)
    THEN IF st.cr # EmptyDict /\ "name" \in DOMAIN st.cr
         THEN [st EXCEPT !.cr = Put(EmptyDict, "name", line_content), !.en = "role"]
         ELSE [st EXCEPT !.cr = Put(@, "name", line_content), !.en = "role"]
    ELSE st

ExpectRole(st, line_content) ==
    IF is_role(line_content)
    THEN [st EXCEPT !.cr = Put(@, "role", line_content), !.en = "start_time"]
    ELSE IF is_time_str(line_content)
    THEN [st EXCEPT !.cr = Put(@, "start_time", RemoveSpaces(line_content)),
                    !.en = "end_time"]
    ELSE IF is_likely_name(line_content)
    THEN IF st.cr # EmptyDict /\ "name" \in DOMAIN st.cr
         THEN [st EXCEPT !.cr = Put(EmptyDict, "name", line_content), !.en = "role"]
         ELSE [st EXCEPT !.cr = Put(@, "name", line_content), !.en = "role"]
    ELSE [st EXCEPT !.en = "start_time"]

\* a new record that takes over the role of the record it replaces
NewPerson_KeepsRole(st, line_content) ==
    [st EXCEPT !.cr = IF "role" \in DOMAIN st.cr
                      THEN Put(Put(EmptyDict, "role", st.cr["role"]),
                               "name", line_content)
                      ELSE Put(EmptyDict, "name", line_content),
               !.en = "role"]

\* current_record = {'name': line_content}; expecting_next = 'role'
NewPerson(st, line_content) ==
    [st EXCEPT !.cr = Put(EmptyDict, "name", line_content), !.en = "role"]

\* a new name in the start_time state that saves whatever is in progress
FlushForNewName_EmitsNameOnly(st, d) ==
    IF st.cr # EmptyDict THEN TryAppend(st, d) ELSE st

\* the if / elif under "elif is_likely_name" of the start_time branch
FlushForNewName(st, d) ==
    IF /\ Truthy(st.cr, "name")
       /\ Get(st.cr, "start_time") = None
       /\ ~ Truthy(st.cr, "is_holiday")
    THEN st
    ELSE IF /\ st.cr # EmptyDict
            /\ ("start_time" \in DOMAIN st.cr \/ Truthy(st.cr, "is_holiday"))
         THEN TryAppend(st, d)
         ELSE st

\* the start_time branch whose holiday record stays in progress after it is
\* appended
ExpectStart_HolidayNoReset(st, line_content, d) ==
    IF is_time_str(line_content)
    THEN [st EXCEPT !.cr = Put(@, "start_time", RemoveSpaces(line_content)),
                    !.en = "end_time"]
    ELSE IF is_likely_name(line_content)
    THEN NewPerson(FlushForNewName(st, d), line_content)
    ELSE IF Truthy(st.cr, "name") /\ ~ Truthy(st.cr, "start_time")
         THEN IF is_line_holiday(line_content) /\ ~ Truthy(st.cr, "is_holiday")
              THEN TryAppend([st EXCEPT !.cr = Put(@, "is_holiday", TRUE)], d)
              ELSE st
         ELSE st

\* the start_time branch that marks a holiday whether a name is stored or not
ExpectStart_HolidayAnyRecord(st, line_content, d) ==
    IF is_time_str(line_content)
    THEN [st EXCEPT !.cr = Put(@, "start_time", RemoveSpaces(line_content)),
                    !.en = "end_time"]
    ELSE IF is_likely_name(line_content)
    THEN NewPerson(FlushForNewName(st, d), line_content)
    ELSE IF ~ Truthy(st.cr, "start_time")
         THEN IF is_line_holiday(line_content) /\ ~ Truthy(st.cr, "is_holiday")
              THEN Reset(TryAppend([st EXCEPT !.cr = Put(@, "is_holiday", TRUE)], d))
              ELSE st
         ELSE st

\* the start_time branch where a new name is added to the record at hand
ExpectStart_KeepsFields(st, line_content, d) ==
    IF is_time_str(line_content)
    THEN [st EXCEPT !.cr = Put(@, "start_time", RemoveSpaces(line_content)),
                    !.en = "end_time"]
    ELSE IF is_likely_name(line_content)
    THEN [FlushForNewName(st, d) EXCEPT !.cr = Put(@, "name", line_content),
                                        !.en = "role"]
    ELSE IF Truthy(st.cr, "name") /\ ~ Truthy(st.cr, "start_time")
         THEN IF is_line_holiday(line_content) /\ ~ Truthy(st.cr, "is_holiday")
              THEN Reset(TryAppend([st EXCEPT !.cr = Put(@, "is_holiday", TRUE)], d))
              ELSE st
         ELSE st

\* the start_time branch with the reset its comments leave out
ExpectStart_ResetsOnOther(st, line_content, d) ==
    IF is_time_str(line_content)
    THEN [st EXCEPT !.cr = Put(@, "start_time", RemoveSpaces(line_content)),
                    !.en = "end_time"]
    ELSE IF is_likely_name(line_content)
    THEN NewPerson(FlushForNewName(st, d), line_content)
    ELSE Reset(st)

ExpectStart(st, line_content, d) ==
    IF is_time_str(line_content)
    THEN [st EXCEPT !.cr = Put(@, "start_time", RemoveSpaces(line_content)),
                    !.en = "end_time"]
    ELSE IF is_likely_name(line_content)
    THEN NewPerson(FlushForNewName(st, d), line_content)
    ELSE IF Truthy(st.cr, "name") /\ ~ Truthy(st.cr, "start_time")
         THEN IF is_line_holiday(line_content) /\ ~ Truthy(st.cr, "is_holiday")
              THEN Reset(TryAppend([st EXCEPT !.cr = Put(@, "is_holiday", TRUE)], d))
              ELSE st
         ELSE st

\* "if current_record and 'start_time' in current_record: try ..."
FlushIfStarted(st, d) ==
    IF st.cr # EmptyDict /\ "start_time" \in DOMAIN st.cr
    THEN TryAppend(st, d)
    ELSE st

\* no re-evaluation: the line that ended the record is used up
Reevaluate_Skipped(st, line_content) == st

\* the re-evaluation of the line after the record without end time is saved
Reevaluate(st, line_content) ==
    IF is_likely_name(line_content)
    THEN [st EXCEPT !.cr = Put(@, "name", line_content), !.en = "role"]
    ELSE IF is_role(line_content)
    THEN [st EXCEPT !.cr = Put(@, "role", line_content), !.en = "start_time"]
    ELSE IF is_time_str(line_content)
    THEN [st EXCEPT !.cr = Put(@, "start_time", RemoveSpaces(line_content)),
                    !.en = "end_time"]
    ELSE st

\* the end_time branch whose last else skips the line
ExpectEnd_ElseSkips(st, line_content, d) ==
    IF is_time_str(line_content)
    THEN Reset(TryAppend(
             [st EXCEPT !.cr = Put(@, "end_time", RemoveSpaces(line_content))], d))
    ELSE IF \/ is_likely_name(line_content)
            \/ is_role(line_content)
            \/ is_time_str(line_content)
    THEN Reevaluate(Reset(FlushIfStarted(st, d)), line_content)
    ELSE st

\* the end_time branch where a time is taken as the start of the next row
ExpectEnd_TimeStartsNext(st, line_content, d) ==
    IF \/ is_likely_name(line_content)
       \/ is_role(line_content)
       \/ is_time_str(line_content)
    THEN Reevaluate(Reset(FlushIfStarted(st, d)), line_content)
    ELSE Reset(FlushIfStarted(st, d))

\* the end_time branch whose last else marks the record as a holiday when
\* the line has a holiday marker
ExpectEnd_OtherMarksHoliday(st, line_content, d) ==
    IF is_time_str(line_content)
    THEN Reset(TryAppend(
             [st EXCEPT !.cr = Put(@, "end_time", RemoveSpaces(line_content))], d))
    ELSE IF \/ is_likely_name(line_content)
            \/ is_role(line_content)
            \/ is_time_str(line_content)
    THEN Reevaluate(Reset(FlushIfStarted(st, d)), line_content)
    ELSE IF is_line_holiday(line_content)
    THEN Reset(FlushIfStarted([st EXCEPT !.cr = Put(@, "is_holiday", TRUE)], d))
    ELSE Reset(FlushIfStarted(st, d))

\* the end_time branch that appends the completed record and keeps it in
\* progress
ExpectEnd_KeepsEndTime(st, line_content, d) ==
    IF is_time_str(line_content)
    THEN TryAppend(
             [st EXCEPT !.cr = Put(@, "end_time", RemoveSpaces(line_content))], d)
    ELSE IF \/ is_likely_name(line_content)
            \/ is_role(line_content)
            \/ is_time_str(line_content)
    THEN Reevaluate(Reset(FlushIfStarted(st, d)), line_content)
    ELSE Reset(FlushIfStarted(st, d))

ExpectEnd(st, line_content, d) ==
    IF is_time_str(line_content)
    THEN Reset(TryAppend(
             [st EXCEPT !.cr = Put(@, "end_time", RemoveSpaces(line_content))], d))
    ELSE IF \/ is_likely_name(line_content)
            \/ is_role(line_content)
            \/ is_time_str(line_content)
    THEN Reevaluate(Reset(FlushIfStarted(st, d)), line_content)
    ELSE Reset(FlushIfStarted(st, d))

\* the if / elif chain on expecting_next
Dispatch(st, line_content, d) ==
    IF st.en = "name" THEN ExpectName(st, line_content)
    ELSE IF st.en = "role" THEN ExpectRole(st, line_content)
    ELSE IF st.en = "start_time" THEN ExpectStart(st, line_content, d)
    ELSE IF st.en = "end_time" THEN ExpectEnd(st, line_content, d)
    ELSE st

\* an end of iteration that keeps a record marked as holiday in progress
HolidayFlush_Never(st, d) == st

\* a holiday check that appends the record and keeps it in progress
HolidayFlush_NoReset(st, d) ==
    IF /\ Truthy(st.cr, "is_holiday")
       /\ Truthy(st.cr, "name")
       /\ \/ st.en # "name"
          \/ st.ps = <<>>
          \/ st.ps[Len(st.ps)].name # Get(st.cr, "name")
    THEN TryAppend(st, d)
    ELSE st

\* the holiday check that ends an iteration
HolidayFlush(st, d) ==
    IF /\ Truthy(st.cr, "is_holiday")
       /\ Truthy(st.cr, "name")
       /\ \/ st.en # "name"
          \/ st.ps = <<>>
          \/ st.ps[Len(st.ps)].name # Get(st.cr, "name")
    THEN Reset(TryAppend(st, d))
    ELSE st

\* one iteration of the line loop
\* an exception that escaped the chain ends the call
EndOfIteration(st, d) == IF st.exc THEN st ELSE HolidayFlush(st, d)

\* an iteration where the header/title test comes after the tests of the
\* cursor states
LineStep_NoiseLast(st, line_content, d) ==
    IF \/ is_likely_name(line_content)
       \/ is_role(line_content)
       \/ is_time_str(line_content)
    THEN EndOfIteration(Dispatch(st, line_content, d), d)
    ELSE IF IsHeaderLine(line_content) THEN HeaderBranch(st, d)
    ELSE IF IsRowNumber(line_content) THEN st
    ELSE EndOfIteration(Dispatch(st, line_content, d), d)

\* an iteration where a row-number line flushes like a header line
LineStep_RowNumberFlushes(st, line_content, d) ==
    IF IsHeaderLine(line_content) \/ IsRowNumber(line_content)
    THEN HeaderBranch(st, d)
    ELSE EndOfIteration(Dispatch(st, line_content, d), d)

\* an iteration without the row-number test
LineStep_RowNumberDispatched(st, line_content, d) ==
    IF IsHeaderLine(line_content) THEN HeaderBranch(st, d)
    ELSE EndOfIteration(Dispatch(st, line_content, d), d)

LineStep(st, line_content, d) ==
    IF IsHeaderLine(line_content) THEN HeaderBranch(st, d)
    ELSE IF IsRowNumber(line_content) THEN st
    ELSE EndOfIteration(Dispatch(st, line_content, d), d)

\* the leftover record after the loop
\* "if shift.start_time or shift.is_holiday: parsed_shifts.append(shift)"
AppendLeftover(st, shift) ==
    IF shift.start_time # None \/ shift.is_holiday
    THEN [st EXCEPT !.ps = Append(@, shift)]
    ELSE st

\* a leftover flush of whatever record is in progress
LeftoverFlush_AnyRecord(st, d) ==
    IF st.cr # EmptyDict /\ ~ ShiftInfoRaises(d, st.cr)
    THEN [st EXCEPT !.ps = Append(@, ShiftInfo(d, st.cr))]
    ELSE st

LeftoverFlush(st, d) ==
    IF /\ st.cr # EmptyDict
       /\ ("start_time" \in DOMAIN st.cr \/ Truthy(st.cr, "is_holiday"))
       /\ d # None
    THEN IF ~ ShiftInfoRaises(d, st.cr)
         THEN AppendLeftover(st, ShiftInfo(d, st.cr))
         ELSE IF ExceptCatches(ValidationError) THEN st ELSE [st EXCEPT !.exc = TRUE]
    ELSE st

\* lines = [line.strip() for line in text.split('\n') if line.strip()]
RECURSIVE SplitLines(_)
SplitLines(t) ==
    IF t = <<>> THEN <<>>
    ELSE IF Strip(Head(t)) = <<>> THEN SplitLines(Tail(t))
         ELSE <<Strip(Head(t))>> \o SplitLines(Tail(t))

InitialLoopState == [cr |-> EmptyDict, en |-> "name", ps |-> <<>>, exc |-> FALSE]

\* the loop over ls from loop state st
RECURSIVE RunLoop(_, _, _)
RunLoop(st, ls, d) ==
    IF ls = <<>> \/ st.exc THEN st
    ELSE RunLoop(LineStep(st, Head(ls), d), Tail(ls), d)

\* parse_shift_text_to_structured_data(t) in year: the list returned
\* the list returned for the lines ls and the table date d
ParseLines(ls, d) ==
    IF d = None THEN <<>>
    ELSE LeftoverFlush(RunLoop(InitialLoopState, ls, d), d).ps

\* parse_shift_text_to_structured_data(t) in year: the list returned
ParseResult(t, year) ==
    ParseLines(SplitLines(t), ExtractTableDate(SplitLines(t), year))

(***************************************************************************)
(* Lines of text the inputs are made of                                    *)
(***************************************************************************)
DateLine == <<"5", "gatsu", "2", "7", "nichi">>
\* a second date, written with spaces
DateLine2 == <<"1", "2", "gatsu", " ", "3", "nichi">>
\* matches the date pattern, is no date of any year
BadDateLine == <<"2", "gatsu", "3", "0", "nichi">>
\* a date of leap years only
LeapDateLine == <<"2", "gatsu", "2", "9", "nichi">>
NameLine == <<"wata", "nabe">>
NameLine2 == <<"ta", "naka">>
\* a role keyword alone: role-like, and name-like too
RoleLine == <<"HO", "CHOON", "RU">>
\* role-like, not name-like
RoleLineAscii == <<"FU", "RO", "N", "TO", "A">>
TimeLine == <<"1", "0", ":", "0", "0">>
TimeLine16 == <<"1", "6", ":", "0", "0">>
\* time-like, no time of day
BadTimeLine == <<"2", "5", ":", "0", "0">>
\* midnight written as hour 24
MidnightLine == <<"2", "4", ":", "0", "0">>
\* hour 24 with a minute
Hour24HalfLine == <<"2", "4", ":", "3", "0">>
\* one minute digit
ShortMinuteLine == <<"9", ":", "5">>
\* a holiday marker alone: name-like too
HolidayLine == <<"kyuu", "mi">>
\* the other holiday marker alone: name-like too
HolidayLineClosed == <<"kyuu", "gyou">>
\* a holiday marker that is not name-like
HolidayLineAscii == <<"kyuu", "mi", "!">>
\* a name with a holiday marker in the same line
HolidayNameLine == <<"ta", "naka", "kyuu", "mi">>
HeaderLine == <<"shi", "mei">>
TitleLine == <<"SHI", "FU", "TO", "hyou">>
RowNumberLine == <<"3">>
\* matches no classifier
OtherLine == <<"E">>

\* the texts of at most n lines over the lines of V
TextsUpTo(V, n) == UNION {[1..k -> V] : k \in 0..n}

\* the texts that are the line first and then n lines over the lines of V
TextsAfter(first, V, n) == {<<first>> \o body : body \in [1..n -> V]}

(***************************************************************************)
(* The state machine: one call of parse_shift_text_to_structured_data      *)
(***************************************************************************)
InitCall(Texts, Years) ==
    /\ text \in Texts
    /\ current_year \in Years
    /\ lines = <<>>
    /\ table_date = None
    /\ line_idx = 0
    /\ current_record = EmptyDict
    /\ expecting_next = "name"
    /\ parsed_shifts = <<>>
    /\ pc = "start"

\* the locals of a call with the argument t in the year y, at its start
NewCall(t, y) ==
    [text |-> t, current_year |-> y, lines |-> <<>>, table_date |-> None,
     line_idx |-> 0, current_record |-> EmptyDict, expecting_next |-> "name",
     parsed_shifts |-> <<>>, pc |-> "start"]

\* no second call is made
NoCall == [NewCall(<<>>, 0) EXCEPT !.pc = "none"]

\* the caller before the parser returns
InitCaller ==
    /\ parse_results_for_reply = <<>>
    /\ processed_shifts_count = 0
    /\ shift_idx = 0
    /\ submitted = <<>>
    /\ caller_pc = "parse"

\* one call, on a text of Texts in a year of Years
InitOn(Texts, Years) ==
    /\ InitCall(Texts, Years)
    /\ second_call = NoCall
    /\ InitCaller

LoopState ==
    [cr |-> current_record, en |-> expecting_next, ps |-> parsed_shifts,
     exc |-> FALSE]

\* the locals take the loop state st; the call goes on at place, or
\* ends with the exception
Becomes(st, place) ==
    /\ current_record' = st.cr
    /\ expecting_next' = st.en
    /\ parsed_shifts' = st.ps
    /\ pc' = IF st.exc THEN "raised" ELSE place

\* the date loop without "if not table_date: return []"
ExtractDate_NoReturn ==
    /\ pc = "start"
    /\ lines' = SplitLines(text)
    /\ table_date' = ExtractTableDate(lines', current_year)
    /\ pc' = "loop"
    /\ UNCHANGED <<text, current_year, line_idx, current_record,
                   expecting_next, parsed_shifts>>
    /\ UNCHANGED <<second_call, caller_vars>>

\* the place of the first line of ls that gives a date
DateLinePlace(ls, year) ==
    CHOOSE k \in 1..Len(ls) :
        /\ LineDate(ls[k], year) # None
        /\ \A j \in 1..(k - 1) : LineDate(ls[j], year) = None

\* the date loop, and a line loop that starts after the line of the date
ExtractDate_SkipsToDateLine ==
    /\ pc = "start"
    /\ lines' = SplitLines(text)
    /\ table_date' = ExtractTableDate(lines', current_year)
    /\ pc' = IF table_date' = None THEN "done" ELSE "loop"
    /\ line_idx' = IF table_date' = None THEN line_idx
                   ELSE DateLinePlace(lines', current_year)
    /\ UNCHANGED <<text, current_year, current_record,
                   expecting_next, parsed_shifts>>
    /\ UNCHANGED <<second_call, caller_vars>>

\* the split into lines and the date loop, with the early return
ExtractDate ==
    /\ pc = "start"
    /\ lines' = SplitLines(text)
    /\ table_date' = ExtractTableDate(lines', current_year)
    /\ pc' = IF table_date' = None THEN "done" ELSE "loop"
    /\ UNCHANGED <<text, current_year, line_idx, current_record,
                   expecting_next, parsed_shifts>>
    /\ UNCHANGED <<second_call, caller_vars>>

\* the line at hand is one the end_time branch re-evaluates
IsRedispatched(line_content) ==
    /\ expecting_next = "end_time"
    /\ ~ is_time_str(line_content)
    /\ is_likely_name(line_content) \/ is_role(line_content)

\* an iteration that leaves a re-evaluated line to be read again
ProcessLine_RereadsLine ==
    /\ pc = "loop"
    /\ line_idx < Len(lines)
    /\ Becomes(LineStep(LoopState, lines[line_idx + 1], table_date), "loop")
    /\ line_idx' = IF IsRedispatched(lines[line_idx + 1])
                   THEN line_idx ELSE line_idx + 1
    /\ UNCHANGED <<text, current_year, lines, table_date>>
    /\ UNCHANGED <<second_call, caller_vars>>

\* one iteration of "for line_idx, line_content in enumerate(lines)"
ProcessLine ==
    /\ pc = "loop"
    /\ line_idx < Len(lines)
    /\ Becomes(LineStep(LoopState, lines[line_idx + 1], table_date), "loop")
    /\ line_idx' = line_idx + 1
    /\ UNCHANGED <<text, current_year, lines, table_date>>
    /\ UNCHANGED <<second_call, caller_vars>>

\* the end of the loop: the leftover record, and the return
Leftover ==
    /\ pc = "loop"
    /\ line_idx = Len(lines)
    /\ Becomes(LeftoverFlush(LoopState, table_date), "done")
    /\ UNCHANGED <<text, current_year, lines, table_date, line_idx>>
    /\ UNCHANGED <<second_call, caller_vars>>

Next == ExtractDate \/ ProcessLine \/ Leftover

(***************************************************************************)
(* A second call of parse_shift_text_to_structured_data, with locals of    *)
(* its own: the function has no module-level, class-level or default-      *)
(* argument object that it writes.                                         *)
(***************************************************************************)
\* the loop state of the call with the locals c
LoopStateOf(c) ==
    [cr |-> c.current_record, en |-> c.expecting_next, ps |-> c.parsed_shifts,
     exc |-> FALSE]

\* the locals c after the loop state became st
CallBecomes(c, st, place) ==
    [c EXCEPT !.current_record = st.cr,
              !.expecting_next = st.en,
              !.parsed_shifts = st.ps,
              !.pc = IF st.exc THEN "raised" ELSE place]

\* the locals c with the lines ls and the table date d
CallDated(c, ls, d) ==
    [c EXCEPT !.lines = ls,
              !.table_date = d,
              !.pc = IF d = None THEN "done" ELSE "loop"]

\* the split into lines and the date loop of the second call
SecondExtractDate ==
    /\ second_call.pc = "start"
    /\ second_call' =
          CallDated(second_call, SplitLines(second_call.text),
                    ExtractTableDate(SplitLines(second_call.text),
                                     second_call.current_year))
    /\ UNCHANGED <<call_vars, caller_vars>>

\* the locals c after one iteration of the line loop
CallAfterLine(c) ==
    [CallBecomes(c, LineStep(LoopStateOf(c), c.lines[c.line_idx + 1],
                             c.table_date), "loop")
        EXCEPT !.line_idx = c.line_idx + 1]

\* an iteration of the second call's loop if parsed_shifts were one list
\* that all calls append to
SecondProcessLine_SharedList ==
    /\ second_call.pc = "loop"
    /\ second_call.line_idx < Len(second_call.lines)
    /\ second_call' =
          CallAfterLine([second_call EXCEPT !.parsed_shifts = parsed_shifts])
    /\ parsed_shifts' = second_call'.parsed_shifts
    /\ UNCHANGED <<text, current_year, lines, table_date, line_idx,
                   current_record, expecting_next, pc, caller_vars>>

\* one iteration of the line loop of the second call
SecondProcessLine ==
    /\ second_call.pc = "loop"
    /\ second_call.line_idx < Len(second_call.lines)
    /\ second_call' = CallAfterLine(second_call)
    /\ UNCHANGED <<call_vars, caller_vars>>

\* the end of the loop of the second call
SecondLeftover ==
    /\ second_call.pc = "loop"
    /\ second_call.line_idx = Len(second_call.lines)
    /\ second_call' =
          CallBecomes(second_call,
                      LeftoverFlush(LoopStateOf(second_call),
                                    second_call.table_date), "done")
    /\ UNCHANGED <<call_vars, caller_vars>>

\* two calls, their steps in any order
NextCalls ==
    \/ ExtractDate \/ ProcessLine \/ Leftover
    \/ SecondExtractDate \/ SecondProcessLine \/ SecondLeftover

(***************************************************************************)
(* The caller: process_image_and_calendar_registration takes the list the  *)
(* parser returned (parsed_shift_data_list is parsed_shifts) and loops     *)
(* over it.                                                                *)
(***************************************************************************)
\* "async def create_calendar_event(line_user_id, shift_info)": parameters
CreateCalendarEventParams == 2

\* "calendar_service.create_calendar_event(db_client, user_id, shift_info)"
CallArguments(shift_info) == <<"db_client", "user_id", shift_info>>

\* binding the arguments to the parameters raises TypeError
CallRaisesTypeError(args) == Len(args) # CreateCalendarEventParams

\* "if not shift_info.start_time or not shift_info.end_time" (a time of day
\* is true, midnight too)
LacksTime(shift_info) ==
    shift_info.start_time = None \/ shift_info.end_time = None

\* what create_calendar_event returns: None for a holiday or a record that
\* lacks a time, else the event id, or None when the service fails
EventIds(shift_info) ==
    IF shift_info.is_holiday \/ LacksTime(shift_info)
    THEN {None}
    ELSE {"event_id", None}

\* an entry of parse_results_for_reply: the line written for shift_info
ReplyLine(kind, shift_info) == [kind |-> kind, shift |-> shift_info]

\* "if parsed_shift_data_list:" after the parser returned
StartShifts ==
    /\ pc = "done"
    /\ caller_pc = "parse"
    /\ caller_pc' = IF parsed_shifts # <<>> THEN "shifts" ELSE "pushed"
    /\ UNCHANGED <<call_vars, second_call, parse_results_for_reply,
                   processed_shifts_count, shift_idx, submitted>>

\* the call of create_calendar_event for shift_info and what follows it
SubmitShift(shift_info) ==
    /\ processed_shifts_count' = processed_shifts_count + 1
    /\ submitted' = Append(submitted, CallArguments(shift_info))
    /\ IF CallRaisesTypeError(CallArguments(shift_info))
       THEN /\ caller_pc' = "error"
            /\ UNCHANGED parse_results_for_reply
       ELSE /\ \E event_id \in EventIds(shift_info) :
                 parse_results_for_reply' =
                     Append(parse_results_for_reply,
                            ReplyLine(IF event_id # None THEN "created"
                                      ELSE "failed", shift_info))
            /\ UNCHANGED caller_pc

\* the shift is written to the reply only
SummarizeOnly(kind, shift_info) ==
    /\ parse_results_for_reply' =
          Append(parse_results_for_reply, ReplyLine(kind, shift_info))
    /\ UNCHANGED <<processed_shifts_count, submitted, caller_pc>>

\* an iteration without "if not shift_info.start_time or not ...end_time"
HandleShift_NoTimeCheck ==
    /\ caller_pc = "shifts"
    /\ shift_idx < Len(parsed_shifts)
    /\ shift_idx' = shift_idx + 1
    /\ IF parsed_shifts[shift_idx + 1].is_holiday
       THEN SummarizeOnly("holiday", parsed_shifts[shift_idx + 1])
       ELSE SubmitShift(parsed_shifts[shift_idx + 1])
    /\ UNCHANGED <<call_vars, second_call>>

\* one iteration of "for shift_info in parsed_shift_data_list"
HandleShift ==
    /\ caller_pc = "shifts"
    /\ shift_idx < Len(parsed_shifts)
    /\ shift_idx' = shift_idx + 1
    /\ IF parsed_shifts[shift_idx + 1].is_holiday
       THEN SummarizeOnly("holiday", parsed_shifts[shift_idx + 1])
       ELSE IF LacksTime(parsed_shifts[shift_idx + 1])
       THEN SummarizeOnly("incomplete", parsed_shifts[shift_idx + 1])
       ELSE SubmitShift(parsed_shifts[shift_idx + 1])
    /\ UNCHANGED <<call_vars, second_call>>

\* the end of the loop: the reply is put together and pushed
PushReply ==
    /\ caller_pc = "shifts"
    /\ shift_idx = Len(parsed_shifts)
    /\ caller_pc' = "pushed"
    /\ UNCHANGED <<call_vars, second_call, parse_results_for_reply,
                   processed_shifts_count, shift_idx, submitted>>

\* the parser's call and then the caller's loop
NextCaller ==
    \/ ExtractDate \/ ProcessLine \/ Leftover
    \/ StartShifts \/ HandleShift \/ PushReply

(***************************************************************************)
(* Spec: every text of at most MaxLines lines over Vocabulary, and every   *)
(* text of a date line followed by MaxLines such lines.                    *)
(***************************************************************************)
MaxLines == 3

Vocabulary ==
    {DateLine, NameLine, RoleLine, RoleLineAscii, TimeLine, BadTimeLine,
     HolidayLine, HolidayLineAscii, HolidayNameLine, HeaderLine,
     RowNumberLine, OtherLine}

Years == {2026}

Init ==
    InitOn(TextsUpTo(Vocabulary, MaxLines)
               \cup TextsAfter(DateLine, Vocabulary, MaxLines),
           Years)

Spec == Init /\ [][Next]_vars

(***************************************************************************)
(* SpecDates: texts of at most MaxDateLines lines with valid, invalid and  *)
(* leap-year date lines, in a leap year and in a common year.              *)
(***************************************************************************)
MaxDateLines == 4

DateVocabulary ==
    {DateLine, DateLine2, BadDateLine, LeapDateLine, NameLine, TimeLine}

DateYears == {2027, 2028}

InitDates == InitOn(TextsUpTo(DateVocabulary, MaxDateLines), DateYears)

SpecDates == InitDates /\ [][Next]_vars

(***************************************************************************)
(* SpecNoise: a date line and one row of name, role, start time and end    *)
(* time, with at most MaxNoise header, title or row-number lines put in    *)
(* at any places.                                                          *)
(***************************************************************************)
\* s with x put in as its p-th element
InsertAt(s, p, x) == SubSeq(s, 1, p - 1) \o <<x>> \o SubSeq(s, p, Len(s))

MaxNoise == 3

NoiseLines == {HeaderLine, TitleLine, RowNumberLine}

SingleRowTexts ==
    {<<DateLine, NameLine, r, TimeLine, TimeLine16>> :
        r \in {RoleLine, RoleLineAscii}}

\* the texts of S with at most k noise lines put in
RECURSIVE WithNoise(_, _)
WithNoise(S, k) ==
    IF k = 0 THEN S
    ELSE S \cup WithNoise(UNION {{InsertAt(t, p, x) :
                                     p \in 1..Len(t) + 1, x \in NoiseLines} :
                                  t \in S}, k - 1)

InitNoise == InitOn(WithNoise(SingleRowTexts, MaxNoise), Years)

SpecNoise == InitNoise /\ [][Next]_vars

(***************************************************************************)
(* SpecHoliday: a date line, a name, a holiday marker line, and then a     *)
(* second name with role, start time and end time.                         *)
(***************************************************************************)
HolidayThenShiftTexts ==
    {<<DateLine, n1, h, n2, r, TimeLine, TimeLine16>> :
        n1 \in {NameLine, NameLine2},
        h \in {HolidayLine, HolidayLineClosed, HolidayLineAscii},
        n2 \in {NameLine, NameLine2},
        r \in {RoleLine, RoleLineAscii}}

InitHoliday == InitOn(HolidayThenShiftTexts, Years)

SpecHoliday == InitHoliday /\ [][Next]_vars

(***************************************************************************)
(* SpecRows: a date line and then up to MaxRows rows.  A shift row is a    *)
(* name, a role, a start time and an end time; a failing row holds the     *)
(* time 25:00 and ends at one of the places where a record is flushed.     *)
(***************************************************************************)
MaxRows == 2

ShiftRows ==
    {<<n, r, TimeLine, TimeLine16>> :
        n \in {NameLine, NameLine2}, r \in {RoleLine, RoleLineAscii}}

FailingRows ==
    {<<NameLine, RoleLineAscii, BadTimeLine, TimeLine16>>,
     <<NameLine2, RoleLine, TimeLine, BadTimeLine>>,
     <<NameLine, RoleLineAscii, BadTimeLine>>,
     <<NameLine2, RoleLineAscii, BadTimeLine, OtherLine>>,
     <<NameLine, RoleLine, BadTimeLine, HeaderLine>>}

Rows == ShiftRows \cup FailingRows

RowSeqs == UNION {[1..k -> Rows] : k \in 0..MaxRows}

RECURSIVE Flatten(_)
Flatten(rs) == IF rs = <<>> THEN <<>> ELSE Head(rs) \o Flatten(Tail(rs))

TextOfRows(rs) == <<DateLine>> \o Flatten(rs)

InitRows == InitOn({TextOfRows(rs) : rs \in RowSeqs}, Years)

SpecRows == InitRows /\ [][Next]_vars

(***************************************************************************)
(* SpecTimes: a date line, a name, a role, and one or two lines written    *)
(* as times, well or not.                                                  *)
(***************************************************************************)
TimeStrings ==
    {TimeLine, TimeLine16, MidnightLine, Hour24HalfLine, BadTimeLine,
     ShortMinuteLine}

TimeTexts ==
    {<<DateLine, n, RoleLine, s>> : n \in {NameLine, NameLine2}, s \in TimeStrings}
    \cup {<<DateLine, n, RoleLine, s, e>> :
              n \in {NameLine, NameLine2}, s \in TimeStrings, e \in TimeStrings}

InitTimes == InitOn(TimeTexts, Years)

SpecTimes == InitTimes /\ [][Next]_vars

(***************************************************************************)
(* SpecCalls: two calls at the same time, each on one of CallTexts in one  *)
(* of CallYears.                                                           *)
(***************************************************************************)
CallTexts ==
    {<<DateLine, NameLine, RoleLine, TimeLine, TimeLine16>>,
     <<DateLine, HolidayNameLine, NameLine, TimeLine>>,
     <<DateLine, NameLine2, TimeLine16, NameLine>>,
     <<DateLine, NameLine, RoleLineAscii, BadTimeLine, TimeLine>>,
     <<LeapDateLine, TimeLine, TimeLine16>>,
     <<NameLine, TimeLine>>}

CallYears == {2027, 2028}

InitCalls ==
    /\ InitCall(CallTexts, CallYears)
    /\ second_call \in {NewCall(t, y) : t \in CallTexts, y \in CallYears}
    /\ InitCaller

SpecCalls == InitCalls /\ [][NextCalls]_vars

(***************************************************************************)
(* SpecLive: a call that runs on.  The function is a for loop over a list  *)
(* with no I/O and no wait, so a step that can be taken is taken.  The     *)
(* texts hold lines that match nothing, noise, a line that is              *)
(* re-evaluated, and texts without a date.                                 *)
(***************************************************************************)
LiveVocabulary == {NameLine, RoleLineAscii, TimeLine, HeaderLine, OtherLine}

LiveTexts ==
    {<<DateLine, a, b>> : a \in LiveVocabulary, b \in LiveVocabulary}
    \cup {<<NameLine, TimeLine>>, <<OtherLine>>, <<>>}

InitLive == InitOn(LiveTexts, Years)

SpecLive == InitLive /\ [][Next]_vars /\ WF_vars(Next)

(***************************************************************************)
(* SpecCaller: the caller on the list parsed from a date line and up to    *)
(* MaxCallerRows rows: complete shifts, a holiday, a shift without end.    *)
(***************************************************************************)
MaxCallerRows == 3

CallerRows ==
    {<<NameLine, RoleLine, TimeLine, TimeLine16>>,
     <<NameLine2, RoleLineAscii, TimeLine16, MidnightLine>>,
     <<HolidayNameLine>>,
     <<NameLine2, RoleLine, TimeLine, OtherLine>>}

CallerTexts ==
    {TextOfRows(rs) : rs \in UNION {[1..k -> CallerRows] : k \in 0..MaxCallerRows}}

InitCallerRows == InitOn(CallerTexts, Years)

SpecCaller == InitCallerRows /\ [][NextCaller]_vars

(***************************************************************************)
(* Properties                                                              *)
(***************************************************************************)

Last(s) == s[Len(s)]

\* the line gives the date loop a date
GivesDate(line_content) == LineDate(line_content, current_year) # None

\* the place of the first line that gives a date, 0 when there is none
FirstDateIndex ==
    IF \E k \in 1..Len(lines) : GivesDate(lines[k])
    THEN CHOOSE k \in 1..Len(lines) :
            GivesDate(lines[k]) /\ \A j \in 1..(k - 1) : ~ GivesDate(lines[j])
    ELSE 0

\* C1: when no line of the text yields a calendar-valid month/day date
\* header, the call returns the empty list, whatever rows the text holds.
C1_NoDateNoRecords ==
    (pc = "done" /\ \A k \in 1..Len(lines) : ~ GivesDate(lines[k]))
        => parsed_shifts = <<>>

\* a returned call on a text with a date-like line of no calendar date
\* and a name, start and end time row, and nothing parsed
C1_Witness ==
    /\ pc = "done"
    /\ lines = <<BadDateLine, NameLine, TimeLine, TimeLine>>
    /\ table_date = None
    /\ parsed_shifts = <<>>

\* C7: every emitted record carries the one table date, which is the date
\* of the first line that yields one; no record is without a date and no
\* two records of a call differ in date.
C7_OneTableDate ==
    /\ pc # "start" =>
          table_date = IF FirstDateIndex = 0 THEN None
                       ELSE LineDate(lines[FirstDateIndex], current_year)
    /\ \A i \in 1..Len(parsed_shifts) :
          parsed_shifts[i].date # None /\ parsed_shifts[i].date = table_date

\* two records emitted from a text with two different date lines
C7_Witness ==
    /\ pc = "done"
    /\ lines = <<DateLine2, TimeLine, DateLine, TimeLine>>
    /\ Len(parsed_shifts) = 2
    /\ parsed_shifts[1].date = <<current_year, 12, 3>>
    /\ parsed_shifts[2].date = <<current_year, 12, 3>>

\* the line is one the loop skips: header, title or row number
IsNoise(line_content) == IsHeaderLine(line_content) \/ IsRowNumber(line_content)

NotNoise(line_content) == ~ IsNoise(line_content)

\* the places of the lines that look like a time
TimePlaces == {k \in 1..Len(lines) : is_time_str(lines[k])}

\* a header or title line stands between the first and the last time line
HeaderBetweenTimes ==
    \E k \in 1..Len(lines) :
        /\ IsHeaderLine(lines[k])
        /\ \E i, j \in TimePlaces : i < k /\ k < j

\* the record of the row left when the noise lines are taken out
SingleRowRecord ==
    [date |-> <<current_year, 5, 27>>,
     start_time |-> <<10, 0>>,
     end_time |-> <<16, 0>>,
     name |-> SelectSeq(lines, NotNoise)[2],
     role |-> SelectSeq(lines, NotNoise)[3],
     memo |-> None,
     is_holiday |-> FALSE]

\* C2 as stated: a date line and name, role, start time, end time in that
\* order, with noise lines at any places, give exactly one record with all
\* four fields set and is_holiday false.
C2_Original == pc = "done" => parsed_shifts = <<SingleRowRecord>>

\* C2, amended: the same, provided no header or title line stands between
\* the start time line and the end time line (row-number lines may stand
\* anywhere, header and title lines anywhere else).
C2_Amended ==
    (pc = "done" /\ ~ HeaderBetweenTimes) => parsed_shifts = <<SingleRowRecord>>

\* one record from a text with a header line between name and role and a
\* row number between the two times
C2_Witness ==
    /\ pc = "done"
    /\ lines = <<TitleLine, DateLine, NameLine, HeaderLine, RoleLine,
                 TimeLine, RowNumberLine, TimeLine16>>
    /\ parsed_shifts = <<SingleRowRecord>>

\* a line that is a name and nothing else to the loop
PlainName(line_content) ==
    /\ is_likely_name(line_content)
    /\ ~ is_line_holiday(line_content)
    /\ ~ is_role(line_content)
    /\ ~ IsHeaderLine(line_content)

\* the holiday record of a name
HolidayRecord(name) ==
    [date |-> table_date, start_time |-> None, end_time |-> None,
     name |-> name, role |-> None, memo |-> None, is_holiday |-> TRUE]

\* C3 as stated: with a date, a name line directly followed by a holiday
\* marker line (name-like itself or not) and no other name, role or time
\* line, exactly one record is returned: the name's, with is_holiday true
\* and no times.
C3_HolidayAfterName ==
    (pc = "done" /\ table_date # None) =>
        \A i \in 1..(Len(lines) - 1) :
            ( /\ PlainName(lines[i])
              /\ is_line_holiday(lines[i + 1])
              /\ \A j \in 1..Len(lines) \ {i, i + 1} :
                    /\ ~ is_likely_name(lines[j])
                    /\ ~ is_role(lines[j])
                    /\ ~ is_time_str(lines[j]) )
            => parsed_shifts = <<HolidayRecord(lines[i])>>

\* C4 as stated: name, holiday marker, second name, role, start time, end
\* time give two records in that order: the first name's holiday record
\* without times, then the second name's record with role and both times.
C4_HolidayThenShift ==
    pc = "done" =>
        parsed_shifts =
            <<HolidayRecord(lines[2]),
              [date |-> table_date, start_time |-> <<10, 0>>,
               end_time |-> <<16, 0>>, name |-> lines[4], role |-> lines[5],
               memo |-> None, is_holiday |-> FALSE]>>

\* the iteration at hand is in the state to read an end time
AtEndTime ==
    pc = "loop" /\ line_idx < Len(lines) /\ expecting_next = "end_time"

\* the record in progress, saved with its start time and no end time
StartOnlyRecord ==
    [date |-> table_date,
     start_time |-> parse_time_str(Get(current_record, "start_time")).value,
     end_time |-> None,
     name |-> Get(current_record, "name"),
     role |-> Get(current_record, "role"),
     memo |-> None,
     is_holiday |-> FALSE]

\* the line at hand starts the next record as its name
StartsNextRecord ==
    /\ current_record' = Put(EmptyDict, "name", lines[line_idx + 1])
    /\ expecting_next' = "role"

\* C5 as stated: in EXPECT_END a name-like line makes the record in
\* progress be emitted with start_time and without end_time, and that line
\* starts the next record as its name (cursor EXPECT_ROLE).
C5_Original ==
    [][(AtEndTime /\ is_likely_name(lines[line_idx + 1])) =>
          /\ parsed_shifts' = Append(parsed_shifts, StartOnlyRecord)
          /\ StartOnlyRecord.start_time # None
          /\ StartsNextRecord]_vars

\* C5, amended: in EXPECT_END a name-like line without header or title
\* keyword makes the record in progress be emitted with start_time and
\* without end_time if its stored start time is a time of day (it is
\* dropped if not), and either way that line starts the next record as its
\* name (cursor EXPECT_ROLE), after the emitted record.
C5_Amended ==
    [][(AtEndTime /\ is_likely_name(lines[line_idx + 1])
                  /\ ~ IsHeaderLine(lines[line_idx + 1])) =>
          /\ parsed_shifts' =
                 IF parse_time_str(Get(current_record, "start_time")).raises
                 THEN parsed_shifts
                 ELSE Append(parsed_shifts, StartOnlyRecord)
          /\ StartsNextRecord]_vars

\* a start time, then a name: the start-only record is out and the name
\* is the record in progress
C5_Witness ==
    /\ pc = "loop"
    /\ lines = <<DateLine, NameLine, TimeLine, NameLine>>
    /\ line_idx = 4
    /\ parsed_shifts =
          <<[date |-> table_date, start_time |-> <<10, 0>>, end_time |-> None,
             name |-> NameLine, role |-> None, memo |-> None,
             is_holiday |-> FALSE]>>
    /\ current_record = Put(EmptyDict, "name", NameLine)
    /\ expecting_next = "role"

\* a row all of whose lines are well formed
IsShiftRow(row) == row \in ShiftRows

\* the record of a shift row
RowRecord(row) ==
    [date |-> table_date, start_time |-> parse_time_str(row[3]).value,
     end_time |-> parse_time_str(row[4]).value, name |-> row[1],
     role |-> row[2],
     memo |-> None, is_holiday |-> FALSE]

RECURSIVE RowRecords(_)
RowRecords(rs) ==
    IF rs = <<>> THEN <<>>
    ELSE IF IsShiftRow(Head(rs))
         THEN <<RowRecord(Head(rs))>> \o RowRecords(Tail(rs))
         ELSE RowRecords(Tail(rs))

\* C6: no exception leaves the call; a candidate record whose time fails
\* validation (25:00), at whichever flush it is built, is dropped alone:
\* the call returns the records of all the well-formed rows, those after
\* a dropped candidate too.
C6_NeverRaises ==
    /\ pc # "raised"
    /\ pc = "done" =>
          \A rs \in RowSeqs :
              lines = TextOfRows(rs) => parsed_shifts = RowRecords(rs)

\* a failing candidate, then a shift row: the shift row's record alone
C6_Witness ==
    /\ pc = "done"
    /\ lines = TextOfRows(<<<<NameLine, RoleLineAscii, BadTimeLine>>,
                            <<NameLine2, RoleLine, TimeLine, TimeLine16>>>>)
    /\ parsed_shifts =
          <<[date |-> table_date, start_time |-> <<10, 0>>,
             end_time |-> <<16, 0>>, name |-> NameLine2, role |-> RoleLine,
             memo |-> None, is_holiday |-> FALSE]>>

\* date lines added to a text
ExtraDateLines == {DateLine, DateLine2}

\* the places after the first date line where a line can be added
LaterPlaces ==
    IF FirstDateIndex = 0 THEN {}
    ELSE (FirstDateIndex + 1)..(Len(lines) + 1)

AtLaterPlace ==
    pc = "loop" /\ FirstDateIndex > 0 /\ line_idx >= FirstDateIndex

IsPrefix(s, t) == Len(s) <= Len(t) /\ SubSeq(t, 1, Len(s)) = s

\* the records are records of rows of rs, in the order of the rows
InRowOrder(rs) ==
    \E f \in [1..Len(parsed_shifts) -> 1..Len(rs)] :
        /\ \A i, j \in 1..Len(parsed_shifts) : i < j => f[i] < f[j]
        /\ \A i \in 1..Len(parsed_shifts) :
              IsShiftRow(rs[f[i]]) /\ parsed_shifts[i] = RowRecord(rs[f[i]])

\* C9: every step leaves the records emitted so far in place, unchanged,
\* and only adds at the end; the records returned follow the order of
\* their rows in the text; two identical rows give two equal records.
C9_AppendOnlyInOrder ==
    /\ [][IsPrefix(parsed_shifts, parsed_shifts')]_vars
    /\ [](pc = "done" =>
            \A rs \in RowSeqs :
                lines = TextOfRows(rs) =>
                    /\ InRowOrder(rs)
                    /\ (Len(rs) = 2 /\ rs[1] = rs[2] /\ IsShiftRow(rs[1])) =>
                          parsed_shifts = <<RowRecord(rs[1]), RowRecord(rs[1])>>)

\* the same row twice, and two equal records
C9_Witness ==
    /\ pc = "done"
    /\ lines = <<DateLine, NameLine, RoleLine, TimeLine, TimeLine16,
                 NameLine, RoleLine, TimeLine, TimeLine16>>
    /\ Len(parsed_shifts) = 2
    /\ parsed_shifts[1] = parsed_shifts[2]
    /\ parsed_shifts[1].name = NameLine

\* the loop is over and the leftover record is next
AtEndOfInput == pc = "loop" /\ line_idx = Len(lines)

\* the record in progress has a start time or is a holiday
StartedOrHoliday ==
    "start_time" \in DOMAIN current_record \/ Truthy(current_record, "is_holiday")

\* the step emits the record in progress
EmitsLeftover ==
    parsed_shifts' = Append(parsed_shifts, ShiftInfo(table_date, current_record))

\* C10 as stated: at the end of input the record in progress is emitted
\* if and only if it has a start_time or is_holiday true.
C10_Original ==
    [][AtEndOfInput =>
          /\ StartedOrHoliday <=> EmitsLeftover
          /\ ~ StartedOrHoliday => parsed_shifts' = parsed_shifts]_vars

\* C10, amended: at the end of input the record in progress is emitted if
\* and only if it has a start_time or is_holiday true and its stored
\* times pass validation; a record with a name and/or a role only, or one
\* whose time fails validation, is discarded and the output is unchanged.
C10_Amended ==
    [][AtEndOfInput =>
          IF StartedOrHoliday /\ ~ ShiftInfoRaises(table_date, current_record)
          THEN EmitsLeftover
          ELSE parsed_shifts' = parsed_shifts]_vars

\* a start time is the last line: its record is the last one returned
C10_Witness ==
    /\ pc = "done"
    /\ lines = <<DateLine, NameLine, RoleLine, TimeLine>>
    /\ current_record =
          Put(Put(Put(EmptyDict, "name", NameLine), "role", RoleLine),
              "start_time", TimeLine)
    /\ parsed_shifts =
          <<[date |-> table_date, start_time |-> <<10, 0>>, end_time |-> None,
             name |-> NameLine, role |-> RoleLine, memo |-> None,
             is_holiday |-> FALSE]>>

\* the line is time-like and a time of day
GoodTime(line_content) ==
    is_time_str(line_content) /\ ~ parse_time_str(line_content).raises

\* the record of the name and role of lines with the times s and e
\* (None for a time that is absent)
TimedRecord(s, e) ==
    [date |-> table_date, start_time |-> s, end_time |-> e,
     name |-> lines[2], role |-> lines[3], memo |-> None,
     is_holiday |-> FALSE]

\* the places of the time lines in a text: date, name, role, start, end
StartPlace == Len(<<"date", "name", "role", "start_time">>)
EndPlace == StartPlace + 1

\* C11: "24:00" is time-like and validates to 00:00, so the record that
\* carries it as start or as end time is emitted with 00:00 in that field
\* (the other time being a time of day); hour 24 with a minute is
\* rejected, and no record is emitted from a row that holds it.
C11_MidnightRollover ==
    /\ is_time_str(MidnightLine)
    /\ parse_time_str(MidnightLine) = [raises |-> FALSE, value |-> <<0, 0>>]
    /\ parse_time_str(Hour24HalfLine).raises
    /\ pc = "done" =>
          /\ (Len(lines) = StartPlace /\ lines[StartPlace] = MidnightLine) =>
                parsed_shifts = <<TimedRecord(<<0, 0>>, None)>>
          /\ ( /\ Len(lines) = EndPlace
               /\ lines[StartPlace] = MidnightLine
               /\ GoodTime(lines[EndPlace]) ) =>
                parsed_shifts =
                    <<TimedRecord(<<0, 0>>, parse_time_str(lines[EndPlace]).value)>>
          /\ ( /\ Len(lines) = EndPlace
               /\ GoodTime(lines[StartPlace])
               /\ lines[EndPlace] = MidnightLine ) =>
                parsed_shifts =
                    <<TimedRecord(parse_time_str(lines[StartPlace]).value, <<0, 0>>)>>
          /\ (\E k \in StartPlace..Len(lines) : lines[k] = Hour24HalfLine) =>
                parsed_shifts = <<>>

\* 16:00 to 24:00 is returned as 16:00 to 00:00
C11_Witness ==
    /\ pc = "done"
    /\ lines = <<DateLine, NameLine, RoleLine, TimeLine16, MidnightLine>>
    /\ parsed_shifts = <<TimedRecord(<<16, 0>>, <<0, 0>>)>>

\* C12 as stated: "9:5" fails time validation, and the record of the row
\* where it stands as start or as end time is not emitted.
C12_Original ==
    /\ parse_time_str(ShortMinuteLine).raises
    /\ (pc = "done" /\ \E k \in StartPlace..Len(lines) : lines[k] = ShortMinuteLine)
           => parsed_shifts = <<>>

\* C12, amended: "9:5" fails time validation but is not time-like, so it
\* is never stored as a time and no record is dropped because of it.  At
\* the end place it ends the record, emitted with its start time and no
\* end time; at the start place it is skipped and the next time-like
\* line is taken as the start time of the record, emitted without end
\* time at the end of input.  (The other time is a time of day.)
C12_Amended ==
    /\ parse_time_str(ShortMinuteLine).raises
    /\ ~ is_time_str(ShortMinuteLine)
    /\ pc = "done" =>
          /\ ( /\ Len(lines) = EndPlace
               /\ GoodTime(lines[StartPlace])
               /\ lines[EndPlace] = ShortMinuteLine ) =>
                parsed_shifts =
                    <<TimedRecord(parse_time_str(lines[StartPlace]).value, None)>>
          /\ ( /\ Len(lines) = EndPlace
               /\ lines[StartPlace] = ShortMinuteLine
               /\ GoodTime(lines[EndPlace]) ) =>
                parsed_shifts =
                    <<TimedRecord(parse_time_str(lines[EndPlace]).value, None)>>
          /\ (Len(lines) = StartPlace /\ lines[StartPlace] = ShortMinuteLine) =>
                parsed_shifts = <<>>

\* 10:00 and then 9:5: the record with 10:00 and no end time
C12_Witness ==
    /\ pc = "done"
    /\ lines = <<DateLine, NameLine, RoleLine, TimeLine, ShortMinuteLine>>
    /\ parsed_shifts = <<TimedRecord(<<10, 0>>, None)>>

\* both calls have returned
BothReturned == pc = "done" /\ second_call.pc = "done"

LoopIteration == pc = "loop" /\ pc' = "loop"

\* C14: every call returns; each iteration of the line loop takes the
\* line after the last one taken and moves the index on by one, also when
\* the line matches nothing or is re-evaluated; the leftover flush runs
\* once, after the last line, and then the call has returned and nothing
\* changes any more.  (Without a table date the call returns before the
\* line loop.)
C14_Terminates ==
    /\ <>(pc = "done")
    /\ [](pc # "raised")
    /\ [][LoopIteration =>
            /\ line_idx' = line_idx + 1
            /\ LoopState' = LineStep(LoopState, lines[line_idx'], table_date)]_vars
    /\ [][(pc = "loop" /\ pc' = "done") =>
            /\ line_idx = Len(lines)
            /\ LoopState' = LeftoverFlush(LoopState, table_date)]_vars
    /\ [][pc = "done" => UNCHANGED call_vars]_vars
    /\ []((pc = "done" /\ table_date # None) => line_idx = Len(lines))

\* a text with a line that is re-evaluated has been read to its end
C14_Witness ==
    /\ pc = "done"
    /\ lines = <<DateLine, TimeLine, NameLine>>
    /\ line_idx = 3
    /\ Len(parsed_shifts) = 1

\* the record is one the caller may submit
Submittable(shift_info) ==
    /\ shift_info.is_holiday = FALSE
    /\ shift_info.start_time # None
    /\ shift_info.end_time # None

\* the records the loop has taken so far that are not to be submitted
HandledUnsubmittable ==
    {k \in 1..shift_idx : ~ Submittable(parsed_shifts[k])}

\* C15: every call of create_calendar_event is for a record with
\* is_holiday false and both times present; a holiday record and a record
\* that lacks a time is written to the reply lines when the loop takes it
\* and is in no call.
C15_OnlyCompleteSubmitted ==
    /\ \A i \in 1..Len(submitted) : Submittable(submitted[i][3])
    /\ \A k \in HandledUnsubmittable :
          /\ \E j \in 1..Len(parse_results_for_reply) :
                /\ parse_results_for_reply[j].shift = parsed_shifts[k]
                /\ parse_results_for_reply[j].kind \in {"holiday", "incomplete"}
          /\ \A i \in 1..Len(submitted) : submitted[i][3] # parsed_shifts[k]
    /\ Len(submitted) + Cardinality(HandledUnsubmittable) = shift_idx

\* a holiday, a shift without end and a complete shift were taken: two
\* reply lines and one call
C15_Witness ==
    /\ lines = <<DateLine, HolidayNameLine, NameLine2, RoleLine, TimeLine,
                 OtherLine, NameLine, RoleLine, TimeLine, TimeLine16>>
    /\ shift_idx = 3
    /\ Len(parse_results_for_reply) = 2
    /\ parse_results_for_reply[1].kind = "holiday"
    /\ parse_results_for_reply[2].kind = "incomplete"
    /\ Len(submitted) = 1
    /\ submitted[1][3] = parsed_shifts[3]

\* an iteration of the line loop is next, on the line TheLine
AtLine == pc = "loop" /\ line_idx < Len(lines)
TheLine == lines[line_idx + 1]

\* the step leaves cursor, record in progress and output as they are
SequencerUnchanged == UNCHANGED <<current_record, expecting_next, parsed_shifts>>

\* the step flushes the record in progress if it has a start time (the
\* record is dropped if it fails validation) and resets the sequencer
FlushesAndResets ==
    /\ parsed_shifts' =
          IF "start_time" \notin DOMAIN current_record
             \/ ShiftInfoRaises(table_date, current_record)
          THEN parsed_shifts
          ELSE Append(parsed_shifts, ShiftInfo(table_date, current_record))
    /\ current_record' = EmptyDict
    /\ expecting_next' = "name"

\* C16 as stated: a header/title line and a row-number line alike, in
\* every cursor state, emit the record in progress if it has a start time
\* and reset the cursor to EXPECT_NAME with an empty record.
C16_Original ==
    [][(AtLine /\ IsNoise(TheLine)) => FlushesAndResets]_vars

\* C16, amended: a header/title line is a flush boundary only when the
\* record in progress has a start time: then the record is emitted (or
\* dropped if it fails validation) and the cursor is reset to EXPECT_NAME
\* with an empty record; with no start time stored the line changes
\* nothing.  A row-number line changes nothing in any cursor state.
C16_Amended ==
    [][(AtLine /\ IsNoise(TheLine)) =>
          IF IsHeaderLine(TheLine) /\ "start_time" \in DOMAIN current_record
          THEN FlushesAndResets
          ELSE SequencerUnchanged]_vars

\* a header line after a start time: the record is out, the cursor reset
C16_Witness ==
    /\ pc = "loop"
    /\ lines = <<DateLine, NameLine, TimeLine, HeaderLine>>
    /\ line_idx = 4
    /\ Len(parsed_shifts) = 1
    /\ parsed_shifts[1].name = NameLine
    /\ parsed_shifts[1].end_time = None
    /\ current_record = EmptyDict
    /\ expecting_next = "name"

\* a line of no category: no noise, not name-like, not role-like, not
\* time-like, no holiday marker
Unclassified(line_content) ==
    /\ ~ IsNoise(line_content)
    /\ ~ is_likely_name(line_content)
    /\ ~ is_role(line_content)
    /\ ~ is_time_str(line_content)
    /\ ~ is_line_holiday(line_content)

\* C17 as stated: a line of no category is skipped in every cursor state
\* with no change to cursor, record in progress or output.
C17_Original ==
    [][(AtLine /\ Unclassified(TheLine)) => SequencerUnchanged]_vars

\* C17, amended: a line of no category changes nothing in EXPECT_NAME and
\* in EXPECT_START; in EXPECT_ROLE it moves the cursor to EXPECT_START and
\* leaves record and output as they are; in EXPECT_END it ends the record:
\* the record is emitted if it has a start time (dropped if it fails
\* validation) and the cursor is reset to EXPECT_NAME with an empty record.
C17_Amended ==
    [][(AtLine /\ Unclassified(TheLine)) =>
          IF expecting_next \in {"name", "start_time"} THEN SequencerUnchanged
          ELSE IF expecting_next = "role"
          THEN /\ expecting_next' = "start_time"
               /\ UNCHANGED <<current_record, parsed_shifts>>
          ELSE FlushesAndResets]_vars

\* a line of no category read in EXPECT_ROLE: the cursor is at EXPECT_START
C17_Witness ==
    /\ pc = "loop"
    /\ lines = <<DateLine, NameLine, OtherLine>>
    /\ line_idx = 3
    /\ current_record = Put(EmptyDict, "name", NameLine)
    /\ expecting_next = "start_time"
    /\ parsed_shifts = <<>>

\* the line at hand is read in EXPECT_ROLE and is neither role-like,
\* time-like nor name-like
AtRoleFallThrough ==
    /\ AtLine
    /\ expecting_next = "role"
    /\ ~ IsNoise(TheLine)
    /\ ~ is_role(TheLine)
    /\ ~ is_time_str(TheLine)
    /\ ~ is_likely_name(TheLine)

\* the loop state after the line at hand is handled with the cursor
\* already at EXPECT_START
AsIfExpectingStart ==
    EndOfIteration(
        ExpectStart([LoopState EXCEPT !.en = "start_time"], TheLine, table_date),
        table_date)

\* C18 as stated: in EXPECT_ROLE a line that is neither role-like,
\* time-like nor name-like is re-evaluated in the same step under the
\* EXPECT_START rules: cursor, record in progress and output after the step
\* are those of handling the line with the cursor already at EXPECT_START,
\* so a holiday marker line marks and flushes a holiday record for the
\* stored name.
C18_RoleFallsThroughToStart ==
    [][AtRoleFallThrough => LoopState' = AsIfExpectingStart]_vars

\* the line at hand is read in EXPECT_END and is name-like or role-like
AtEndRedispatch ==
    /\ AtEndTime
    /\ ~ IsNoise(TheLine)
    /\ ~ is_time_str(TheLine)
    /\ is_likely_name(TheLine) \/ is_role(TheLine)

\* the loop state after the record in progress is flushed and the line at
\* hand is fed to an empty sequencer in EXPECT_NAME
AsIfExpectingName ==
    EndOfIteration(
        ExpectName(Reset(FlushIfStarted(LoopState, table_date)), TheLine),
        table_date)

\* C19 as stated: in EXPECT_END, on a name-like or role-like line, the
\* record in progress is flushed and the line then goes through the whole
\* EXPECT_NAME logic: cursor, record in progress and emitted records are
\* those of feeding the line to an empty sequencer in EXPECT_NAME, a holiday
\* record included when the name-like line holds a holiday marker.
C19_EndRedispatchesAsName ==
    [][AtEndRedispatch => LoopState' = AsIfExpectingName]_vars

\* the line at hand is read in EXPECT_NAME, is name-like and holds a
\* holiday marker
AtHolidayName ==
    /\ AtLine
    /\ expecting_next = "name"
    /\ ~ IsNoise(TheLine)
    /\ is_likely_name(TheLine)
    /\ is_line_holiday(TheLine)

\* C20: in EXPECT_NAME a line (no header/title line) that is name-like and
\* holds a holiday marker gives, within its own line step, exactly one
\* more emitted record: the line as name, is_holiday true, no role and no
\* times; after the step the cursor is EXPECT_NAME and the record in
\* progress is empty.
C20_HolidayNameEmitted ==
    [][AtHolidayName =>
          /\ parsed_shifts' = Append(parsed_shifts, HolidayRecord(TheLine))
          /\ current_record' = EmptyDict
          /\ expecting_next' = "name"]_vars

\* a name with holiday marker read after a finished row
C20_Witness ==
    /\ pc = "loop"
    /\ lines = <<DateLine, TimeLine, TimeLine, HolidayNameLine>>
    /\ line_idx = 4
    /\ Len(parsed_shifts) = 2
    /\ parsed_shifts[2] = HolidayRecord(HolidayNameLine)
    /\ current_record = EmptyDict
    /\ expecting_next = "name"

\* the step appends nothing, or one record, which is the holiday record of
\* the name in progress made by a line with a holiday marker
AppendsNoHolidayTwice ==
    LET n == Len(parsed_shifts)
    IN  /\ Len(parsed_shifts') <= n + 1
        /\ SubSeq(parsed_shifts', 1, n) = parsed_shifts
        /\ (Len(parsed_shifts') = n + 1 /\ parsed_shifts'[n + 1].is_holiday) =>
              /\ AtLine
              /\ is_line_holiday(TheLine)
              /\ current_record' = EmptyDict

\* C21: a record that gets is_holiday true together with a name is
\* flushed in the line step that sets the flag: between line steps and at
\* the end of input the record in progress never has is_holiday true, and
\* no holiday record is emitted twice (a step emits one holiday record
\* at most, only on a line with a holiday marker, and leaves no record in
\* progress behind; the leftover flush emits no holiday record).
C21_HolidayFlushedAtOnce ==
    /\ [](pc \in {"loop", "done"} => "is_holiday" \notin DOMAIN current_record)
    /\ [][AppendsNoHolidayTwice]_vars

\* a holiday marker read in EXPECT_START: the record is out and nothing is
\* in progress when the input ends
C21_Witness ==
    /\ pc = "done"
    /\ lines = <<DateLine, NameLine, RoleLineAscii, HolidayLineAscii>>
    /\ parsed_shifts = <<[HolidayRecord(NameLine) EXCEPT !.role = RoleLineAscii]>>
    /\ current_record = EmptyDict

\* the line at hand is read in EXPECT_START, is neither time-like nor
\* name-like and holds a holiday marker
AtStartHoliday ==
    /\ AtLine
    /\ expecting_next = "start_time"
    /\ ~ IsNoise(TheLine)
    /\ ~ is_time_str(TheLine)
    /\ ~ is_likely_name(TheLine)
    /\ is_line_holiday(TheLine)

\* the step marks the record in progress as holiday, emits it and resets
MarksAndEmitsHoliday ==
    /\ parsed_shifts' =
          Append(parsed_shifts,
                 ShiftInfo(table_date, Put(current_record, "is_holiday", TRUE)))
    /\ current_record' = EmptyDict
    /\ expecting_next' = "name"

\* C22 as stated: in EXPECT_START a holiday marker line that is neither
\* time-like nor name-like marks the record in progress as holiday, emits
\* it and resets the sequencer, whether the record holds a name, a role or
\* both.
C22_Original ==
    [][AtStartHoliday => MarksAndEmitsHoliday]_vars

\* C22, amended: in EXPECT_START a holiday marker line that is neither
\* time-like nor name-like marks the record in progress as holiday, emits
\* it with its name and role and no times, and resets the sequencer, when
\* the record holds a name (with or without a role); a record that holds
\* a role and no name is left as it is, nothing is emitted and the cursor
\* stays at EXPECT_START.
C22_Amended ==
    [][AtStartHoliday =>
          /\ "start_time" \notin DOMAIN current_record
          /\ IF Truthy(current_record, "name")
             THEN MarksAndEmitsHoliday
             ELSE /\ Truthy(current_record, "role")
                  /\ SequencerUnchanged]_vars

\* a holiday marker read in EXPECT_START after a name and a line of no
\* category
C22_Witness ==
    /\ pc = "loop"
    /\ lines = <<DateLine, NameLine, OtherLine, HolidayLineAscii>>
    /\ line_idx = 4
    /\ parsed_shifts = <<HolidayRecord(NameLine)>>
    /\ current_record = EmptyDict
    /\ expecting_next = "name"

\* the line at hand is read in EXPECT_ROLE and is name-like, not role-like
AtRoleNewName ==
    /\ AtLine
    /\ expecting_next = "role"
    /\ ~ IsNoise(TheLine)
    /\ is_likely_name(TheLine)
    /\ ~ is_role(TheLine)

\* line i is a name that the next line, a name and no role, replaces, and
\* no other line of the text is equal to it
ReplacedName(i) ==
    /\ i < Len(lines)
    /\ PlainName(lines[i])
    /\ is_likely_name(lines[i + 1])
    /\ ~ is_role(lines[i + 1])
    /\ ~ IsNoise(lines[i + 1])
    /\ \A j \in 1..Len(lines) : lines[j] = lines[i] => j = i

\* C23: in EXPECT_ROLE a name-like line that is not role-like (and no
\* header/title line) discards the record in progress without emitting
\* it: the output is unchanged, the new record in progress holds only the
\* new name and the cursor stays at EXPECT_ROLE; the discarded name, when
\* no other line of the text carries it, is in no returned record.
C23_NewNameDiscardsOld ==
    /\ [][AtRoleNewName =>
             /\ "name" \in DOMAIN current_record
             /\ parsed_shifts' = parsed_shifts
             /\ current_record' = Put(EmptyDict, "name", TheLine)
             /\ expecting_next' = "role"]_vars
    /\ [](pc = "done" =>
             \A i \in 1..Len(lines) :
                 ReplacedName(i) =>
                     \A k \in 1..Len(parsed_shifts) :
                         parsed_shifts[k].name # lines[i])

\* a second name read in EXPECT_ROLE took the place of the first
C23_Witness ==
    /\ pc = "loop"
    /\ lines = <<DateLine, NameLine, HolidayNameLine>>
    /\ line_idx = 3
    /\ parsed_shifts = <<>>
    /\ current_record = Put(EmptyDict, "name", HolidayNameLine)
    /\ expecting_next = "role"

\* the line at hand is read in EXPECT_NAME and is role-like
AtNameRole ==
    /\ AtLine
    /\ expecting_next = "name"
    /\ ~ IsNoise(TheLine)
    /\ is_role(TheLine)

\* the step stores the line as the role of a new record without name
StoresRoleOnly ==
    /\ current_record' = Put(EmptyDict, "role", TheLine)
    /\ expecting_next' = "start_time"
    /\ parsed_shifts' = parsed_shifts

\* C24 as stated: in EXPECT_NAME every role-like line, a line that is
\* exactly a role keyword included, is stored as the role of a new record
\* whose name stays empty, and the cursor goes to EXPECT_START.
C24_Original ==
    [][AtNameRole => StoresRoleOnly]_vars

\* C24, amended: in EXPECT_NAME a role-like line that is not name-like is
\* stored as the role of a new record whose name stays empty, and the
\* cursor goes to EXPECT_START; a role-like line that is name-like, as a
\* line that is exactly a role keyword is, is handled as a name: it is
\* stored as the name and the cursor goes to EXPECT_ROLE (with a holiday
\* marker in it, its holiday record is emitted).
C24_Amended ==
    [][AtNameRole =>
          /\ current_record = EmptyDict
          /\ IF ~ is_likely_name(TheLine) THEN StoresRoleOnly
             ELSE IF is_line_holiday(TheLine)
             THEN /\ parsed_shifts' = Append(parsed_shifts, HolidayRecord(TheLine))
                  /\ current_record' = EmptyDict
                  /\ expecting_next' = "name"
             ELSE /\ current_record' = Put(EmptyDict, "name", TheLine)
                  /\ expecting_next' = "role"
                  /\ parsed_shifts' = parsed_shifts]_vars

\* a role read first: it is stored without a name
C24_Witness ==
    /\ pc = "loop"
    /\ lines = <<DateLine, RoleLineAscii>>
    /\ line_idx = 2
    /\ current_record = Put(EmptyDict, "role", RoleLineAscii)
    /\ expecting_next = "start_time"
    /\ parsed_shifts = <<>>

\* the line at hand is read in EXPECT_START and is name-like
AtStartNewName ==
    /\ AtLine
    /\ expecting_next = "start_time"
    /\ ~ IsNoise(TheLine)
    /\ ~ is_time_str(TheLine)
    /\ is_likely_name(TheLine)

\* C25: in EXPECT_START a name-like line (no header/title line) makes a
\* record in progress that has a start_time or is_holiday true be emitted
\* before the new record starts, and otherwise emits nothing; after the
\* step the record in progress holds only the new name and the cursor is
\* EXPECT_ROLE.  (Second conjunct: in the calls of the parser the cursor is
\* never at EXPECT_START with a start time or a holiday flag stored, so
\* there the step emits nothing.)
C25_NewNameInExpectStart ==
    /\ [][AtStartNewName =>
             /\ parsed_shifts' =
                   IF StartedOrHoliday
                      /\ ~ ShiftInfoRaises(table_date, current_record)
                   THEN Append(parsed_shifts,
                               ShiftInfo(table_date, current_record))
                   ELSE parsed_shifts
             /\ current_record' = Put(EmptyDict, "name", TheLine)
             /\ expecting_next' = "role"]_vars
    /\ []((pc = "loop" /\ expecting_next = "start_time") => ~ StartedOrHoliday)

\* a name read in EXPECT_START after a name and a role: only the new name
\* is in progress
C25_Witness ==
    /\ pc = "loop"
    /\ lines = <<DateLine, NameLine, RoleLineAscii, HolidayNameLine>>
    /\ line_idx = 4
    /\ parsed_shifts = <<>>
    /\ current_record = Put(EmptyDict, "name", HolidayNameLine)
    /\ expecting_next = "role"

(***************************************************************************)
(* SpecRuns: a date line and then a run of one to MaxRun time-like lines,   *)
(* read from EXPECT_NAME or after a name and a role.                       *)
(***************************************************************************)
MaxRun == 4

RunLines == {TimeLine, TimeLine16, BadTimeLine}

RunTexts ==
    LET runs == UNION {[1..k -> RunLines] : k \in 1..MaxRun}
    IN  {<<DateLine>> \o r : r \in runs}
        \cup {<<DateLine, NameLine, RoleLine>> \o r : r \in runs}

InitRuns == InitOn(RunTexts, Years)

SpecRuns == InitRuns /\ [][Next]_vars

\* the line at hand is read in EXPECT_END and is time-like
AtEndTimeLike == AtEndTime /\ ~ IsNoise(TheLine) /\ is_time_str(TheLine)

\* the record in progress with the line at hand as its end time
WithEndTime == Put(current_record, "end_time", RemoveSpaces(TheLine))

\* the returned records that have a start time and an end time
CompleteRecords ==
    {i \in 1..Len(parsed_shifts) :
        /\ parsed_shifts[i].start_time # None
        /\ parsed_shifts[i].end_time # None}

\* the text is a date line and then time-like lines only
IsTimeRun ==
    /\ Len(lines) >= 2
    /\ \A i \in 2..Len(lines) : is_time_str(lines[i])

\* the pairs of the run whose two times are times of day
ValidPairs ==
    {j \in 1..((Len(lines) - 1) \div 2) :
        /\ ~ parse_time_str(lines[2 * j]).raises
        /\ ~ parse_time_str(lines[2 * j + 1]).raises}

\* C26 as stated: in EXPECT_END every time-like line is taken as the end
\* time of the record in progress: the record is emitted with start and
\* end time, the sequencer is reset, and a run of k time-like lines read
\* from EXPECT_NAME gives k div 2 complete records.
C26_Original ==
    /\ [][AtEndTimeLike =>
             /\ Len(parsed_shifts') = Len(parsed_shifts) + 1
             /\ current_record' = EmptyDict
             /\ expecting_next' = "name"]_vars
    /\ []((pc = "done" /\ IsTimeRun) =>
             Cardinality(CompleteRecords) = (Len(lines) - 1) \div 2)

\* C26, amended: in EXPECT_END every time-like line is taken as the end
\* time of the record in progress, never as the start of the next row,
\* and the sequencer is reset to EXPECT_NAME with an empty record; the
\* record is emitted with start and end time and its name and role if both
\* times are times of day, and dropped if one fails validation.  A run of
\* k time-like lines read from EXPECT_NAME pairs up, and the complete
\* records returned are those of the pairs whose two times are valid:
\* k div 2 when all are.
C26_Amended ==
    /\ [][AtEndTimeLike =>
             /\ parsed_shifts' =
                   IF ShiftInfoRaises(table_date, WithEndTime)
                   THEN parsed_shifts
                   ELSE Append(parsed_shifts, ShiftInfo(table_date, WithEndTime))
             /\ current_record' = EmptyDict
             /\ expecting_next' = "name"]_vars
    /\ []((pc = "done" /\ IsTimeRun) =>
             Cardinality(CompleteRecords) = Cardinality(ValidPairs))

\* four valid times after name and role: two complete records, the first
\* with the name and the role
C26_Witness ==
    /\ pc = "done"
    /\ lines = <<DateLine, NameLine, RoleLine,
                 TimeLine, TimeLine16, TimeLine, TimeLine16>>
    /\ Len(parsed_shifts) = 2
    /\ Cardinality(CompleteRecords) = 2
    /\ parsed_shifts[1].name = NameLine
    /\ parsed_shifts[1].role = RoleLine
    /\ parsed_shifts[2].start_time = <<10, 0>>
    /\ parsed_shifts[2].end_time = <<16, 0>>

\* the line at hand is read in EXPECT_END and is neither time-like,
\* name-like nor role-like
AtEndOther ==
    /\ AtEndTime
    /\ ~ IsNoise(TheLine)
    /\ ~ is_time_str(TheLine)
    /\ ~ is_likely_name(TheLine)
    /\ ~ is_role(TheLine)

\* the line at hand is no field of an emitted record or of the record in
\* progress after the step
LineInNoRecord ==
    /\ \A k \in 1..Len(parsed_shifts') :
          /\ parsed_shifts'[k].name # TheLine
          /\ parsed_shifts'[k].role # TheLine
    /\ \A key \in DOMAIN current_record' : current_record'[key] # TheLine

\* C27 as stated: in EXPECT_END a line that is neither time-like,
\* name-like nor role-like makes the record in progress, which has a
\* start time, be emitted without end time; the sequencer is reset and the
\* line gives no field to any record.
C27_Original ==
    [][AtEndOther =>
          /\ parsed_shifts' = Append(parsed_shifts, StartOnlyRecord)
          /\ StartOnlyRecord.start_time # None
          /\ current_record' = EmptyDict
          /\ expecting_next' = "name"
          /\ LineInNoRecord]_vars

\* C27, amended: in EXPECT_END a line that is neither time-like, name-like
\* nor role-like (and no noise line) makes the record in progress, which
\* has a start time stored, be emitted without end time if that start
\* time is a time of day, and dropped if it fails validation; either way
\* the sequencer is reset to EXPECT_NAME with an empty record and the line
\* gives no field to any record.
C27_Amended ==
    [][AtEndOther =>
          /\ "start_time" \in DOMAIN current_record
          /\ "end_time" \notin DOMAIN current_record
          /\ parsed_shifts' =
                IF ShiftInfoRaises(table_date, current_record)
                THEN parsed_shifts
                ELSE Append(parsed_shifts, StartOnlyRecord)
          /\ current_record' = EmptyDict
          /\ expecting_next' = "name"
          /\ LineInNoRecord]_vars

\* a holiday marker line that is no name, read in EXPECT_END: the record
\* with the start time is out, without holiday flag
C27_Witness ==
    /\ pc = "loop"
    /\ lines = <<DateLine, NameLine, TimeLine, HolidayLineAscii>>
    /\ line_idx = 4
    /\ Len(parsed_shifts) = 1
    /\ parsed_shifts[1].name = NameLine
    /\ parsed_shifts[1].start_time = <<10, 0>>
    /\ parsed_shifts[1].end_time = None
    /\ ~ parsed_shifts[1].is_holiday
    /\ current_record = EmptyDict
    /\ expecting_next = "name"

(***************************************************************************)
(* SpecDateScan: texts of at most MaxScanLines lines over the lines of     *)
(* SpecDates, in a leap year and in a common year.                         *)
(***************************************************************************)
MaxScanLines == 3

InitDateScan == InitOn(TextsUpTo(DateVocabulary, MaxScanLines), DateYears)

SpecDateScan == InitDateScan /\ [][Next]_vars

\* the line matches the date-header pattern and its month and day are a
\* calendar date of the processing year
MatchesValidDate(line_content) ==
    /\ date_header_match(line_content) # None
    /\ DateOk(current_year,
              date_header_match(line_content)[1],
              date_header_match(line_content)[2])

\* the lines before place k give no date
NoDateBefore(k) == \A j \in 1..(k - 1) : ~ MatchesValidDate(lines[j])

\* C28: the date loop goes through the lines in input order and gives the
\* month and day of the first line that matches the date-header pattern
\* with a calendar date of the processing year (a line that matches with
\* no calendar date is passed over); when no line matches, or no match is
\* a calendar date, there is no date and the call returns no record.
C28_FirstValidDateLine ==
    pc # "start" =>
        /\ \A k \in 1..Len(lines) :
              (MatchesValidDate(lines[k]) /\ NoDateBefore(k)) =>
                  table_date = <<current_year,
                                 date_header_match(lines[k])[1],
                                 date_header_match(lines[k])[2]>>
        /\ NoDateBefore(Len(lines) + 1) =>
              /\ table_date = None
              /\ parsed_shifts = <<>>
              /\ pc = "done"

\* a leap day in a common year is passed over and the next date line
\* gives the date
C28_Witness ==
    /\ pc = "done"
    /\ current_year = 2027
    /\ lines = <<LeapDateLine, DateLine, DateLine2>>
    /\ table_date = <<2027, 5, 27>>

(***************************************************************************)
(* SpecDatePlace: one to MaxRows well-formed rows with the date line       *)
(* before, between or after them.                                          *)
(***************************************************************************)
ShiftRowSeqs == UNION {[1..k -> ShiftRows] : k \in 1..MaxRows}

\* the rows rs with the date line after the first p of them
TextWithDateAt(rs, p) ==
    Flatten(SubSeq(rs, 1, p)) \o <<DateLine>> \o Flatten(SubSeq(rs, p + 1, Len(rs)))

DatePlaceTexts ==
    {TextWithDateAt(rs, p) : <<rs, p>> \in
        {x \in ShiftRowSeqs \X (0..MaxRows) : x[2] <= Len(x[1])}}

InitDatePlace == InitOn(DatePlaceTexts, Years)

SpecDatePlace == InitDatePlace /\ [][Next]_vars

IsRowLine(line_content) == line_content # DateLine

\* the lines of the text's rows, without the date line
RowLines == SelectSeq(SplitLines(text), IsRowLine)

\* the record of the i-th row of the text, with the table date
RecordOfRow(i) ==
    [date |-> <<current_year, 5, 27>>,
     start_time |-> <<10, 0>>, end_time |-> <<16, 0>>,
     name |-> RowLines[4 * i - 3], role |-> RowLines[4 * i - 2],
     memo |-> None, is_holiday |-> FALSE]

\* the text has a row before its date line
RowBeforeDate == SplitLines(text) # <<>> /\ Head(SplitLines(text)) # DateLine

\* C29: the table date is fixed by a first pass over the whole text before
\* any record is assembled, and does not change afterwards; the rows that
\* come before the date line are assembled and emitted like those after
\* it, and every record carries the table date.
C29_DateFixedFirst ==
    /\ [](pc = "start" => (parsed_shifts = <<>> /\ current_record = EmptyDict))
    /\ [](pc # "start" => table_date = <<current_year, 5, 27>>)
    /\ [][pc # "start" => table_date' = table_date]_vars
    /\ [](pc = "done" =>
             /\ Len(parsed_shifts) = Len(RowLines) \div 4
             /\ \A i \in 1..Len(parsed_shifts) : parsed_shifts[i] = RecordOfRow(i))

\* two rows and then the date line: both rows are returned with the date
C29_Witness ==
    /\ pc = "done"
    /\ RowBeforeDate
    /\ lines = <<NameLine, RoleLine, TimeLine, TimeLine16,
                 NameLine2, RoleLineAscii, TimeLine, TimeLine16, DateLine>>
    /\ Len(parsed_shifts) = 2
    /\ parsed_shifts[1].name = NameLine
    /\ parsed_shifts[1].date = <<current_year, 5, 27>>
    /\ parsed_shifts[2].name = NameLine2
    /\ parsed_shifts[2].date = <<current_year, 5, 27>>

(***************************************************************************)
(* SpecPriority: a date line and then at most MaxPriorityLines lines, over *)
(* lines of one category and lines of several categories.                  *)
(***************************************************************************)
MaxPriorityLines == 3

\* name-like, role-like and holiday marker
RoleHolidayLine == <<"HO", "CHOON", "RU", "kyuu", "mi">>
\* role-like and holiday marker, not name-like
RoleAsciiHolidayLine == <<"FU", "RO", "N", "TO", "A", "kyuu", "mi">>
\* header keyword, name-like and role-like
HeaderRoleLine == <<"tan", "tou", "HO", "CHOON", "RU">>

PriorityVocabulary ==
    {NameLine, RoleLineAscii, TimeLine,
     RoleLine, HolidayNameLine, HeaderLine,
     RoleHolidayLine, RoleAsciiHolidayLine, HeaderRoleLine}

InitPriority ==
    InitOn(UNION {TextsAfter(DateLine, PriorityVocabulary, k) :
                      k \in 1..MaxPriorityLines},
           Years)

SpecPriority == InitPriority /\ [][Next]_vars

\* the line satisfies two or more of the predicates name-like, role-like,
\* holiday marker and header/title
MultiCategory(line_content) ==
    Cardinality({c \in {"name", "role", "holiday", "noise"} :
                    \/ c = "name" /\ is_likely_name(line_content)
                    \/ c = "role" /\ is_role(line_content)
                    \/ c = "holiday" /\ is_line_holiday(line_content)
                    \/ c = "noise" /\ IsNoise(line_content)}) >= 2

\* the step takes the line as a name: as the name in progress, or as the
\* name of a holiday record it emits
ActsAsName ==
    \/ Get(current_record', "name") = TheLine
    \/ /\ Len(parsed_shifts') = Len(parsed_shifts) + 1
       /\ Last(parsed_shifts').name = TheLine

\* the step takes the line as the role in progress
ActsAsRole == Get(current_record', "role") = TheLine

\* the step starts a record with the line as its only field
StartsWith(key) ==
    /\ current_record' = Put(EmptyDict, key, TheLine)
    /\ expecting_next' = IF key = "name" THEN "role" ELSE "start_time"

\* the step emits the record in progress if it has a valid start time
FlushesStarted ==
    parsed_shifts' =
        IF "start_time" \notin DOMAIN current_record
           \/ ShiftInfoRaises(table_date, current_record)
        THEN parsed_shifts
        ELSE Append(parsed_shifts, ShiftInfo(table_date, current_record))

\* C30 as stated: a line that satisfies more than one predicate is acted
\* on, in every cursor state, by the first category in the order
\* name-like, role-like, time-like, date-header, holiday marker,
\* noise/header, row number: a name-like line as a name, a role-like line
\* that is not name-like as a role.
C30_Original ==
    [][(AtLine /\ MultiCategory(TheLine)) =>
          IF is_likely_name(TheLine) THEN ActsAsName
          ELSE is_role(TheLine) => ActsAsRole]_vars

\* C30, amended: a header/title line is discarded as noise ahead of every
\* other category, in every cursor state (flushing a started record).
\* Among the other categories the order depends on the cursor state:
\* EXPECT_NAME acts on name-like (with a holiday marker: the holiday
\* record is emitted) before role-like; EXPECT_ROLE acts on role-like
\* before name-like and on no holiday marker; EXPECT_START acts on
\* name-like, never on role-like, and on a holiday marker only in a line
\* that is not name-like; EXPECT_END flushes and then acts on name-like
\* before role-like and on no holiday marker.
C30_Amended ==
    [][(AtLine /\ MultiCategory(TheLine)) =>
          IF IsNoise(TheLine)
          THEN IF "start_time" \in DOMAIN current_record
               THEN FlushesAndResets ELSE SequencerUnchanged
          ELSE IF expecting_next = "name"
          THEN IF is_likely_name(TheLine) /\ is_line_holiday(TheLine)
               THEN /\ parsed_shifts' =
                          Append(parsed_shifts, HolidayRecord(TheLine))
                    /\ current_record' = EmptyDict
                    /\ expecting_next' = "name"
               ELSE /\ parsed_shifts' = parsed_shifts
                    /\ IF is_likely_name(TheLine)
                       THEN StartsWith("name") ELSE StartsWith("role")
          ELSE IF expecting_next = "role"
          THEN /\ parsed_shifts' = parsed_shifts
               /\ IF is_role(TheLine)
                  THEN /\ current_record' = Put(current_record, "role", TheLine)
                       /\ expecting_next' = "start_time"
                  ELSE StartsWith("name")
          ELSE IF expecting_next = "start_time"
          THEN IF is_likely_name(TheLine)
               THEN parsed_shifts' = parsed_shifts /\ StartsWith("name")
               ELSE IF Truthy(current_record, "name")
               THEN MarksAndEmitsHoliday ELSE SequencerUnchanged
          ELSE /\ FlushesStarted
               /\ IF is_likely_name(TheLine)
                  THEN StartsWith("name") ELSE StartsWith("role")]_vars

\* a role keyword read in EXPECT_ROLE is the role, not a new name
C30_Witness ==
    /\ pc = "loop"
    /\ lines = <<DateLine, NameLine, RoleLine>>
    /\ line_idx = 3
    /\ current_record = Put(Put(EmptyDict, "name", NameLine), "role", RoleLine)
    /\ expecting_next = "start_time"
    /\ parsed_shifts = <<>>

(***************************************************************************)
(* SpecLines: a date line and then one to MaxSeqLines lines over lines of  *)
(* every kind the line loop tells apart.                                   *)
(***************************************************************************)
MaxSeqLines == 3

SeqVocabulary ==
    {NameLine, NameLine2, RoleLine, RoleLineAscii, TimeLine, BadTimeLine,
     HolidayLineAscii, HolidayNameLine, HeaderLine, RowNumberLine, OtherLine}

InitLines ==
    InitOn(UNION {TextsAfter(DateLine, SeqVocabulary, k) : k \in 1..MaxSeqLines},
           Years)

SpecLines == InitLines /\ [][Next]_vars

\* C31: every emitted record has a start time or is a holiday record (a
\* record of a name and/or a role alone is emitted from no flush), and no
\* emitted record has an end time without a start time.
C31_EmittedStartedOrHoliday ==
    \A i \in 1..Len(parsed_shifts) :
        /\ parsed_shifts[i].start_time # None \/ parsed_shifts[i].is_holiday
        /\ parsed_shifts[i].end_time # None => parsed_shifts[i].start_time # None

\* a holiday record and a record with a start time only are returned,
\* and the name and role read last are not
C31_Witness ==
    /\ pc = "done"
    /\ lines = <<DateLine, HolidayNameLine, TimeLine, NameLine>>
    /\ Len(parsed_shifts) = 2
    /\ parsed_shifts[1].is_holiday
    /\ parsed_shifts[1].start_time = None
    /\ parsed_shifts[2].start_time = <<10, 0>>
    /\ parsed_shifts[2].end_time = None
    /\ current_record = Put(EmptyDict, "name", NameLine)

\* line i is a name, the next line its role, and the line after that a
\* name-like line that is no time; no other line of the text is equal to
\* line i
ReplacedNameAndRole(i) ==
    /\ i + 1 < Len(lines)
    /\ PlainName(lines[i])
    /\ is_role(lines[i + 1])
    /\ ~ IsNoise(lines[i + 1])
    /\ is_likely_name(lines[i + 2])
    /\ ~ is_time_str(lines[i + 2])
    /\ ~ IsNoise(lines[i + 2])
    /\ \A j \in 1..Len(lines) : lines[j] = lines[i] => j = i

\* C32: between two lines, with the cursor at EXPECT_ROLE the record in
\* progress is exactly a name, and with the cursor at EXPECT_START it is a
\* name and/or a role with no start_time, end_time or is_holiday; a line
\* that is taken as a new name in either state leaves the output as it is,
\* and a person of whom only the name, or the name and the role, was read
\* before the next name is in no returned record.
C32_NameAndRoleOnly ==
    /\ [](pc = "loop" =>
             /\ expecting_next = "role" => DOMAIN current_record = {"name"}
             /\ expecting_next = "start_time" =>
                    /\ DOMAIN current_record # {}
                    /\ DOMAIN current_record \subseteq {"name", "role"})
    /\ [][(AtRoleNewName \/ AtStartNewName) =>
              parsed_shifts' = parsed_shifts]_vars
    /\ [](pc = "done" =>
             \A i \in 1..Len(lines) :
                 (ReplacedName(i) \/ ReplacedNameAndRole(i)) =>
                     \A k \in 1..Len(parsed_shifts) :
                         parsed_shifts[k].name # lines[i])

\* a name and its role were read and the next name took their place:
\* nothing is returned and only the second name is in progress
C32_Witness ==
    /\ pc = "done"
    /\ lines = <<DateLine, NameLine, RoleLineAscii, NameLine2>>
    /\ ReplacedNameAndRole(2)
    /\ parsed_shifts = <<>>
    /\ current_record = Put(EmptyDict, "name", NameLine2)

\* C33: before the first line and between two lines the cursor is
\* EXPECT_NAME exactly when the record in progress is empty; a line step
\* that brings the cursor to EXPECT_NAME leaves the record empty, and one
\* that takes it away from EXPECT_NAME leaves the record non-empty.
C33_ExpectNameIffEmpty ==
    /\ [](pc \in {"start", "loop"} =>
             (expecting_next = "name" <=> current_record = EmptyDict))
    /\ [][(AtLine /\ expecting_next # "name" /\ expecting_next' = "name") =>
              current_record' = EmptyDict]_vars
    /\ [][(AtLine /\ expecting_next = "name" /\ expecting_next' # "name") =>
              current_record' # EmptyDict]_vars

\* a record with a start time was flushed by a line of no kind: the cursor
\* is back at EXPECT_NAME and the record in progress is empty
C33_Witness ==
    /\ pc = "loop"
    /\ lines = <<DateLine, NameLine, TimeLine, OtherLine>>
    /\ line_idx = Len(lines)
    /\ Len(parsed_shifts) = 1
    /\ expecting_next = "name"
    /\ current_record = EmptyDict

\* C34: before the first line and between two lines the cursor is
\* EXPECT_END exactly when the record in progress has a start_time, and the
\* record in progress has no end_time; the line step that stores an
\* end_time also takes the record out of progress, and a record it emits
\* carries that end time.
C34_ExpectEndIffStarted ==
    /\ [](pc \in {"start", "loop"} =>
             /\ expecting_next = "end_time" <=>
                    "start_time" \in DOMAIN current_record
             /\ "end_time" \notin DOMAIN current_record)
    /\ [][AtEndTimeLike =>
              /\ current_record' = EmptyDict
              /\ expecting_next' = "name"
              /\ \/ parsed_shifts' = parsed_shifts
                 \/ /\ Len(parsed_shifts') = Len(parsed_shifts) + 1
                    /\ Last(parsed_shifts').end_time # None]_vars

\* a start time is stored for a name and the cursor is at EXPECT_END
C34_Witness ==
    /\ pc = "loop"
    /\ lines = <<DateLine, NameLine, TimeLine, TimeLine>>
    /\ line_idx = 3
    /\ expecting_next = "end_time"
    /\ current_record =
           Put(Put(EmptyDict, "name", NameLine), "start_time", TimeLine)
    /\ parsed_shifts = <<>>

\* C35: every emitted record with is_holiday true has a non-empty name and
\* neither a start time nor an end time.
C35_HolidayRecordsNamedUntimed ==
    \A i \in 1..Len(parsed_shifts) :
        parsed_shifts[i].is_holiday =>
            /\ parsed_shifts[i].name # None
            /\ Len(parsed_shifts[i].name) > 0
            /\ parsed_shifts[i].start_time = None
            /\ parsed_shifts[i].end_time = None

\* the holiday record made in EXPECT_START for a name and a role is
\* returned
C35_Witness ==
    /\ pc = "done"
    /\ lines = <<DateLine, NameLine, RoleLineAscii, HolidayLineAscii>>
    /\ parsed_shifts =
           <<[HolidayRecord(NameLine) EXCEPT !.role = RoleLineAscii]>>

\* a time-like string the validator rejects gives way to one it accepts
ValidTimeFor(x) ==
    IF is_time_str(x) /\ parse_time_str(x).raises THEN TimeLine ELSE x

\* the record in progress with times the validator accepts
ValidTwinRecord ==
    [k \in DOMAIN current_record |->
        IF k \in {"start_time", "end_time"}
        THEN ValidTimeFor(current_record[k])
        ELSE current_record[k]]

\* the record in progress and the line at hand pass validation as they are
CandidateValid ==
    /\ ValidTwinRecord = current_record
    /\ ValidTimeFor(TheLine) = TheLine

\* the same line step taken with times the validator accepts
ValidTwinStep ==
    LineStep([cr |-> ValidTwinRecord, en |-> expecting_next,
              ps |-> parsed_shifts, exc |-> FALSE],
             ValidTimeFor(TheLine), table_date)

\* the line step builds a ShiftInfo: with valid times it appends a record
AtFlushPoint == AtLine /\ ValidTwinStep.ps # parsed_shifts

\* C36: at a line step that builds a ShiftInfo from the record in progress,
\* the cursor and the record in progress after the step are those of the
\* same step taken with valid times, whether the validator raised or not;
\* the output gains exactly one record when it did not raise and is
\* unchanged when it raised.  At the leftover flush the cursor and the
\* record are left as they are and the output differs in the same way.
C36_FlushStateIgnoresValidation ==
    /\ [][AtFlushPoint =>
              /\ current_record' = ValidTwinStep.cr
              /\ expecting_next' = ValidTwinStep.en
              /\ pc' = "loop"
              /\ Len(ValidTwinStep.ps) = Len(parsed_shifts) + 1
              /\ parsed_shifts' = IF CandidateValid
                                  THEN ValidTwinStep.ps
                                  ELSE parsed_shifts]_vars
    /\ [][(AtEndOfInput /\ StartedOrHoliday) =>
              /\ UNCHANGED <<current_record, expecting_next>>
              /\ pc' = "done"
              /\ parsed_shifts' =
                    IF ShiftInfoRaises(table_date, current_record)
                    THEN parsed_shifts
                    ELSE Append(parsed_shifts,
                                ShiftInfo(table_date, current_record))]_vars

\* a header line met a record whose start time the validator rejects:
\* nothing was appended, and record and cursor are reset as after a
\* successful flush
C36_Witness ==
    /\ pc = "loop"
    /\ lines = <<DateLine, NameLine, BadTimeLine, HeaderLine>>
    /\ line_idx = Len(lines)
    /\ parsed_shifts = <<>>
    /\ current_record = EmptyDict
    /\ expecting_next = "name"

NotRowNumber(line_content) == ~ IsRowNumber(line_content)

\* C37: a line of one or two digits changes nothing in any cursor state:
\* the cursor, the record in progress (a start time waiting for its end
\* time included) and the output are as before the line; the records
\* returned are those of the text without its row-number lines, so a row
\* number between a start time and its end time does not split the record.
C37_RowNumberChangesNothing ==
    /\ [][(AtLine /\ IsRowNumber(TheLine)) =>
              (SequencerUnchanged /\ pc' = "loop")]_vars
    /\ [](pc = "done" =>
             parsed_shifts =
                 ParseLines(SelectSeq(lines, NotRowNumber), table_date))

\* a row number stood between the start time and the end time, and the
\* row is returned as one record
C37_Witness ==
    /\ pc = "done"
    /\ lines = <<DateLine, NameLine, RoleLine, TimeLine, RowNumberLine,
                 TimeLine16>>
    /\ parsed_shifts = <<SingleRowRecord>>

NotHeaderLine(line_content) == ~ IsHeaderLine(line_content)

\* a start time is stored when the loop comes to line k
StartedBefore(k) ==
    "start_time" \in
        DOMAIN RunLoop(InitialLoopState, SubSeq(lines, 1, k - 1), table_date).cr

\* no header or title line of the text is read while a start time is stored
HeadersMeetNoStart ==
    \A k \in 1..Len(lines) : IsHeaderLine(lines[k]) => ~ StartedBefore(k)

\* C38: a header or title line read while the record in progress has no
\* start_time changes nothing: the cursor, the record in progress and the
\* output are as before the line; when every header or title line of a
\* text is read so, the records returned are those of the text without
\* these lines, so a name stored before a header line is completed by the
\* role and the times after it.
C38_HeaderWithoutStartChangesNothing ==
    /\ [][(AtLine /\ IsHeaderLine(TheLine)
             /\ "start_time" \notin DOMAIN current_record) =>
              (SequencerUnchanged /\ pc' = "loop")]_vars
    /\ []((pc = "done" /\ HeadersMeetNoStart) =>
             parsed_shifts =
                 ParseLines(SelectSeq(lines, NotHeaderLine), table_date))

\* a header line stood between the name and the role, and the row is
\* returned as one record with that name
C38_Witness ==
    /\ pc = "done"
    /\ lines = <<DateLine, NameLine, HeaderLine, RoleLine, TimeLine,
                 TimeLine16>>
    /\ HeadersMeetNoStart
    /\ parsed_shifts = <<SingleRowRecord>>

\* the time-like lines and the lines with a holiday marker among the
\* first n lines of the text
SupplyingLines(n) ==
    {k \in 1..n : is_time_str(lines[k]) \/ is_line_holiday(lines[k])}

\* the record in progress holds a start time that no emitted record has yet
PendingStart == IF "start_time" \in DOMAIN current_record THEN 1 ELSE 0

\* C39: a line step and the leftover flush emit at most one record each;
\* after any number of lines the emitted records and the start time still
\* in progress are together no more than the time-like and holiday-marker
\* lines read so far (each such line gives a time or the holiday flag to
\* at most one record, and every emitted record has one of them); so the
\* returned records are no more than the time-like lines and the
\* holiday-marker lines of the input.
C39_AtMostOneRecordPerSupplyingLine ==
    /\ [][/\ Len(parsed_shifts') <= Len(parsed_shifts) + 1
          /\ SubSeq(parsed_shifts', 1, Len(parsed_shifts)) = parsed_shifts]_vars
    /\ [](pc = "loop" =>
             Len(parsed_shifts) + PendingStart
                 <= Cardinality(SupplyingLines(line_idx)))
    /\ [](pc = "done" =>
             Len(parsed_shifts) <= Cardinality(SupplyingLines(Len(lines))))

\* one holiday-marker line and one time-like line gave one record each
C39_Witness ==
    /\ pc = "done"
    /\ lines = <<DateLine, HolidayNameLine, TimeLine, OtherLine>>
    /\ SupplyingLines(Len(lines)) = {2, 3}
    /\ Len(parsed_shifts) = 2
    /\ parsed_shifts[1].is_holiday
    /\ parsed_shifts[2].start_time = <<10, 0>>

====
